---- MODULE Spec2Model ----
(***************************************************************************)
(* Market-metrics extraction and aggregation of the real-estate newsletter *)
(* agent: the two regex extractors (AnalysisAgent, ExtractionAgent), the   *)
(* per-source loop of AnalysisAgent.analyze_market_data and the averages   *)
(* of NewsletterAgent._calculate_averages.                                 *)
(*                                                                         *)
(* A text is a sequence of tokens; the text the program sees is the        *)
(* tokens' renderings joined by single spaces, on one line.  A token is a  *)
(* record [k, w, num, suf]:                                                *)
(*   k = "word"  : the phrase w (lower-case letters, spaces, hyphen)       *)
(*   k = "money" : "$" followed by the characters num and the suffix suf   *)
(*   k = "pct"   : the sign w ("", "+" or "-"), the characters num, "%"    *)
(*   k = "num"   : the characters num                                      *)
(* num is a sequence of one-character strings over 0-9 , and .  so that    *)
(* stripping separators and converting to a number are computed, not       *)
(* assumed.  Floats are fixed-point tenths; a price is [t, mult], the      *)
(* value t/10 * mult, because price * 1000000 does not fit TLC's integers. *)
(***************************************************************************)
EXTENDS Integers, Sequences, FiniteSets, TLC

VARIABLES
    agent,        \* which extractor variant runs: "analysis" or "extraction"
    raw,          \* the document text handed to the extractor (token sequence)
    pc,           \* position in the extraction sequence of one source
    max_price,    \* AnalysisAgent: upper extraction bound passed to _extract_price_metrics
    price_out,    \* result of _extract_price_metrics
    change_out,   \* result of _extract_price_change
    market_out,   \* result of _extract_market_metrics
    extracted,    \* ExtractionAgent.extract_data: the list market_data it returns
    location,     \* analyze_market_data: the location argument
    market_data,  \* analyze_market_data: sequence of [source, text, loaded] entries
    apc,          \* analyze_market_data / generate_newsletter: position
    idx,          \* analyze_market_data: index of the next market_data entry
    metrics,      \* analyze_market_data: the metrics dict being built (<<>> before the call)
    report,       \* analyze_market_data: the returned report (<<>> until it returns)
    charges,      \* the events handed to Actor.charge, in order
    aborted,      \* analyze_market_data: the loop was left through the except clause
    averages,     \* NewsletterAgent._calculate_averages result (<<>> until computed)
    wdata,        \* NewsletterWriter: the market_data argument, [source, data] entries
    wpc,          \* NewsletterWriter._format_market_data: position
    valid_sources,\* NewsletterWriter._validate_source_data: the entries retained, in order
    formatted,    \* NewsletterWriter._format_market_data: its outcome
    furls,        \* SearchAgent.filter_urls: the urls argument
    fidx,         \* filter_urls: index of the next url
    filtered_urls,\* filter_urls: the list being built
    source_counts,\* filter_urls: URLs taken per source
    fpc,          \* filter_urls: position
    actor_input,  \* main: the Actor's input
    mpc,          \* main: position
    stages,       \* main: the stages run so far, in order
    environ,      \* main: the keys of os.environ that main has set
    pushed        \* main: number of Actor.push_data calls

vars == <<agent, raw, pc, max_price, price_out, change_out, market_out, extracted,
          location, market_data, apc, idx, metrics, report, charges, aborted, averages,
          wdata, wpc, valid_sources, formatted,
          furls, fidx, filtered_urls, source_counts, fpc,
          actor_input, mpc, stages, environ, pushed>>

extractVars == <<agent, raw, pc, max_price, price_out, change_out, market_out, extracted>>
analyzeVars == <<location, market_data, apc, idx, metrics, report, charges, aborted, averages>>
writerVars  == <<wdata, wpc, valid_sources, formatted>>
filterVars  == <<furls, fidx, filtered_urls, source_counts, fpc>>
mainVars    == <<actor_input, mpc, stages, environ, pushed>>

\* the variables of the components that the extractors and the analysis do
\* not touch
otherVars == <<writerVars, filterVars, mainVars>>

\* NewsletterWriter is not called
WriterIdle ==
    /\ wdata = <<>>
    /\ wpc = "idle"
    /\ valid_sources = <<>>
    /\ formatted = <<>>

\* SearchAgent.filter_urls is not called
FilterIdle ==
    /\ furls = <<>>
    /\ fidx = 0
    /\ filtered_urls = <<>>
    /\ source_counts = <<>>
    /\ fpc = "idle"

\* main is not running
MainIdle ==
    /\ actor_input = <<>>
    /\ mpc = "idle"
    /\ stages = <<>>
    /\ environ = {}
    /\ pushed = 0

OtherIdle == WriterIdle /\ FilterIdle /\ MainIdle

-----------------------------------------------------------------------------
(* Characters and numerals *)

Digits == {"0", "1", "2", "3", "4", "5", "6", "7", "8", "9"}

DigitVal(c) ==
    CASE c = "0" -> 0 [] c = "1" -> 1 [] c = "2" -> 2 [] c = "3" -> 3
      [] c = "4" -> 4 [] c = "5" -> 5 [] c = "6" -> 6 [] c = "7" -> 7
      [] c = "8" -> 8 [] c = "9" -> 9

\* the numeral left as it is
StripCommas_none(s) == s

\* str.replace(",", "")
RECURSIVE StripCommas(_)
StripCommas(s) ==
    IF s = <<>> THEN <<>>
    ELSE IF Head(s) = "," THEN StripCommas(Tail(s))
    ELSE <<Head(s)>> \o StripCommas(Tail(s))

RECURSIVE DigitsValue(_, _)
DigitsValue(s, acc) ==
    IF s = <<>> THEN acc ELSE DigitsValue(Tail(s), 10 * acc + DigitVal(Head(s)))

AllDigits(s) == \A i \in 1..Len(s) : s[i] \in Digits

\* int(s): ok = FALSE stands for the ValueError int() raises
PyInt(s) ==
    IF s # <<>> /\ AllDigits(s)
    THEN [ok |-> TRUE, v |-> DigitsValue(s, 0)]
    ELSE [ok |-> FALSE, v |-> 0]

\* float(s) of an unsigned token, in tenths: digits with at most one ".",
\* at least one digit ("450000.", ".5" and "1.2" convert; "", "." and "1.2.3"
\* raise ValueError).  The numerals used carry at most one fractional digit.
UnsignedFloat(s) ==
    LET dots == {i \in 1..Len(s) : s[i] = "."}
        dot  == IF dots = {} THEN Len(s) + 1 ELSE CHOOSE i \in dots : TRUE
        ip   == SubSeq(s, 1, dot - 1)
        fp   == SubSeq(s, dot + 1, Len(s))
    IN  IF /\ Cardinality(dots) <= 1
           /\ AllDigits(ip) /\ AllDigits(fp)
           /\ Len(ip) + Len(fp) >= 1
        THEN [ok |-> TRUE,
              v  |-> 10 * DigitsValue(ip, 0) + (IF fp = <<>> THEN 0 ELSE DigitVal(fp[1]))]
        ELSE [ok |-> FALSE, v |-> 0]

\* float(s): an optional sign, then an unsigned token; ok = FALSE stands for
\* the ValueError float() raises
PyFloat(s) ==
    IF s # <<>> /\ Head(s) \in {"+", "-"}
    THEN LET p == UnsignedFloat(Tail(s))
         IN  [ok |-> p.ok, v |-> IF Head(s) = "-" THEN 0 - p.v ELSE p.v]
    ELSE UnsignedFloat(s)

Abs(x) == IF x < 0 THEN 0 - x ELSE x

-----------------------------------------------------------------------------
(* Prices: value = t/10 * mult *)

Price(t, mult) == [t |-> t, mult |-> mult]

\* lo <= price <= hi for whole-dollar bounds lo, hi, without forming t * mult
PriceGe(p, lo) == p.t >= ((10 * lo) + p.mult - 1) \div p.mult
PriceLe(p, hi) == p.t <= (10 * hi) \div p.mult
PriceWithin(p, lo, hi) == PriceGe(p, lo) /\ PriceLe(p, hi)

\* price * k
PriceTimes(p, k) == Price(p.t, p.mult * k)

-----------------------------------------------------------------------------
(* Tokens *)

Word(w)       == [k |-> "word",  w |-> w,  num |-> <<>>, suf |-> ""]
Money(n, suf) == [k |-> "money", w |-> "", num |-> n,    suf |-> suf]
Pct(sign, n)  == [k |-> "pct",   w |-> sign, num |-> n,  suf |-> ""]
Num(n)        == [k |-> "num",   w |-> "", num |-> n,    suf |-> ""]

\* str.lower() / str.upper() on one character
LowerChar(c) ==
    CASE c = "A" -> "a" [] c = "B" -> "b" [] c = "C" -> "c" [] c = "D" -> "d"
      [] c = "E" -> "e" [] c = "F" -> "f" [] c = "G" -> "g" [] c = "H" -> "h"
      [] c = "I" -> "i" [] c = "J" -> "j" [] c = "K" -> "k" [] c = "L" -> "l"
      [] c = "M" -> "m" [] c = "N" -> "n" [] c = "O" -> "o" [] c = "P" -> "p"
      [] c = "Q" -> "q" [] c = "R" -> "r" [] c = "S" -> "s" [] c = "T" -> "t"
      [] c = "U" -> "u" [] c = "V" -> "v" [] c = "W" -> "w" [] c = "X" -> "x"
      [] c = "Y" -> "y" [] c = "Z" -> "z"
      [] OTHER -> c
UpperChar(c) == CASE c = "k" -> "K" [] c = "m" -> "M" [] OTHER -> c

\* str.lower() of a phrase: the phrases that hold a capital letter
LowerWord(w) ==
    CASE w = "The" -> "the" [] w = "Homes" -> "homes" [] w = "There are" -> "there are"
      [] OTHER -> w

\* str.lower() of a text: digits and punctuation have no case, the unit
\* suffix and the capitals of the phrases are folded
Lower(text) ==
    [i \in 1..Len(text) |->
        IF text[i].k = "word" THEN [text[i] EXCEPT !.w = LowerWord(@)]
        ELSE IF text[i].suf = "" THEN text[i]
        ELSE [text[i] EXCEPT !.suf = LowerChar(@)]]

-----------------------------------------------------------------------------
(* Phrases of the vocabulary, by the regex literals that occur in them *)

\* first character of a phrase (read by text[end:end+2])
WordFirst(w) ==
    CASE w \in {"median", "median price", "median list price", "more"} -> "m"
      [] w \in {"kitchen"} -> "k"
      [] w \in {"home value", "homes", "homes for sale", "homes for sale.",
                "homes sold"} -> "h"
      [] w \in {"average", "average listing age of", "are selling in"} -> "a"
      [] w \in {"typical home value", "total listings", "the", "there are"} -> "t"
      [] w \in {"The", "There are"} -> "T"
      [] w \in {"Homes"} -> "H"
      [] w \in {"up"} -> "u"
      [] w \in {"down", "decrease", "decreased", "days", "days on market",
                "days on the market."} -> "d"
      [] w \in {"increase", "increased", "inventory of", "is"} -> "i"
      [] w \in {"since last year", "since last year.", "sold in"} -> "s"
      [] w \in {"1-yr"} -> "1"
      [] w \in {"pending in", "per square foot", "price per square foot",
                "properties for sale", "properties found"} -> "p"
      [] OTHER -> "?"

HasMedian(w)          == w \in {"median", "median price", "median list price"}
HasAverage(w)         == w \in {"average", "average listing age of"}
HasMedianPrice(w)     == w \in {"median price"}
HasHomeValue(w)       == w \in {"home value", "typical home value"}
HasTypicalHomeValue(w) == w \in {"typical home value"}
HasMedianListPrice(w) == w \in {"median list price"}

-----------------------------------------------------------------------------
(* Regex matching on token sequences *)

NumChars == Digits \cup {",", "."}     \* [0-9,.]
DotChars == Digits \cup {"."}          \* [0-9.]
CommaChars == Digits \cup {","}        \* [0-9,]

\* the characters of a token that is not a phrase
Chars(tok) ==
    CASE tok.k = "money" -> <<"$">> \o tok.num \o (IF tok.suf = "" THEN <<>> ELSE <<tok.suf>>)
      [] tok.k = "pct"   -> (IF tok.w = "" THEN <<>> ELSE <<tok.w>>) \o tok.num \o <<"%">>
      [] tok.k = "num"   -> tok.num
      [] OTHER           -> <<>>

FirstChar(tok) == IF tok.k = "word" THEN WordFirst(tok.w) ELSE Head(Chars(tok))

\* longest prefix / suffix of s made of characters of class
RECURSIVE LeadRunOf(_, _)
LeadRunOf(s, class) ==
    IF s = <<>> \/ Head(s) \notin class THEN <<>>
    ELSE <<Head(s)>> \o LeadRunOf(Tail(s), class)

RECURSIVE TrailRunOf(_, _)
TrailRunOf(s, class) ==
    IF s = <<>> \/ s[Len(s)] \notin class THEN <<>>
    ELSE TrailRunOf(SubSeq(s, 1, Len(s) - 1), class) \o <<s[Len(s)]>>

\* the run of class characters a token starts with / ends with
LeadRun(tok, class) ==
    IF tok.k = "word"
    THEN (IF tok.w = "1-yr" /\ "1" \in class THEN <<"1">> ELSE <<>>)
    ELSE LeadRunOf(Chars(tok), class)
TrailRun(tok, class) ==
    IF tok.k = "word" THEN <<>> ELSE TrailRunOf(Chars(tok), class)

\* the token is exactly a non-empty run of class characters
WholeRun(tok, class) ==
    tok.k = "num" /\ tok.num # <<>> /\ \A i \in 1..Len(tok.num) : tok.num[i] \in class

\* least index >= from whose token satisfies P, 0 when there is none
FirstFrom(text, from, P(_)) ==
    LET S == {i \in from..Len(text) : P(text[i])}
    IN  IF S = {} THEN 0 ELSE CHOOSE i \in S : \A j \in S : i <= j

IsMoney(tok) == tok.k = "money" /\ tok.num # <<>>

NoMatch == [ok |-> FALSE, n |-> 0, g1 |-> <<>>, g2 |-> <<>>, at |-> 0, follow |-> <<>>]
Match(n, g1, g2, at, follow) ==
    [ok |-> TRUE, n |-> n, g1 |-> g1, g2 |-> g2, at |-> at, follow |-> follow]

\* text[end:end+2] for a match that ends inside money token j: after the
\* digits when the suffix was not consumed, after the suffix when it was
FollowOfMoney(text, j, consumed) ==
    LET rest == IF consumed \/ text[j].suf = "" THEN <<>> ELSE <<text[j].suf>>
        next == IF j < Len(text) THEN <<" ", FirstChar(text[j + 1])>> ELSE <<>>
    IN  SubSeq(rest \o next, 1, IF Len(rest \o next) < 2 THEN Len(rest \o next) ELSE 2)

\* "\$([0-9,.]+)[MK]?" at money token j: group 1 is the whole numeral, the
\* class [MK] takes an upper-case suffix only (no re.IGNORECASE)
MoneyMatch(text, j, n) ==
    Match(n, text[j].num, IF text[j].suf \in {"K", "M"} THEN <<text[j].suf>> ELSE <<>>,
          j, FollowOfMoney(text, j, text[j].suf \in {"K", "M"}))

\* "<phrase>.*?\$([0-9,.]+)[MK]?": the first token holding the phrase, then
\* lazily the first money token after it
PhraseThenMoney(text, P(_), n) ==
    LET i == FirstFrom(text, 1, LAMBDA t : t.k = "word" /\ P(t.w))
        j == IF i = 0 THEN 0 ELSE FirstFrom(text, i + 1, IsMoney)
    IN  IF j = 0 THEN NoMatch ELSE MoneyMatch(text, j, n)

\* "<phrase1>.*?<phrase2>.*?\$([0-9,.]+)[MK]?"
TwoPhrasesThenMoney(text, P1(_), P2(_), n) ==
    LET i == FirstFrom(text, 1, LAMBDA t : t.k = "word" /\ P1(t.w))
        h == IF i = 0 THEN 0 ELSE FirstFrom(text, i + 1, LAMBDA t : t.k = "word" /\ P2(t.w))
        j == IF h = 0 THEN 0 ELSE FirstFrom(text, h + 1, IsMoney)
    IN  IF j = 0 THEN NoMatch ELSE MoneyMatch(text, j, n)

\* "\$([0-9,.]+)[MK]?(?=.*median)": the first money token with "median"
\* somewhere after it
MoneyBeforeMedian(text, n) ==
    LET S == {j \in 1..Len(text) :
                /\ IsMoney(text[j])
                /\ \E h \in (j + 1)..Len(text) : text[h].k = "word" /\ HasMedian(text[h].w)}
    IN  IF S = {} THEN NoMatch
        ELSE MoneyMatch(text, CHOOSE j \in S : \A h \in S : j <= h, n)

-----------------------------------------------------------------------------
(* Result of one category's pattern loop: val is <<>> when the key is not  *)
(* stored and <<v>> when it is; tried lists the patterns handed to         *)
(* re.search, in order; exc names an exception that left the loop.         *)

Found(v, tried)  == [val |-> <<v>>, tried |-> tried, exc |-> "none"]
NotFound(tried)  == [val |-> <<>>,  tried |-> tried, exc |-> "none"]
Raised(e, tried) == [val |-> <<>>,  tried |-> tried, exc |-> e]
NotRun           == [val |-> <<>>,  tried |-> <<>>,  exc |-> "none"]

-----------------------------------------------------------------------------
(* AnalysisAgent._extract_price_metrics *)

Analysis_price_count == 4

Analysis_price_patterns(text, i) ==
    CASE i = 1 -> PhraseThenMoney(text, HasMedianPrice, 1)
      [] i = 2 -> TwoPhrasesThenMoney(text, HasAverage, HasHomeValue, 1)
      [] i = 3 -> TwoPhrasesThenMoney(text, HasMedian, HasHomeValue, 1)
      [] i = 4 -> MoneyBeforeMedian(text, 1)

\* min_price <= price <= max_price, on the number as parsed
Analysis_price_valid(price, min_price, maxp) == PriceWithin(price, min_price, maxp)

\* the unit looked for in the two characters after the match
Analysis_price_value(price, follow) ==
    IF \E c \in 1..Len(follow) : LowerChar(follow[c]) = "m" THEN PriceTimes(price, 1000000)
    ELSE IF \E c \in 1..Len(follow) : LowerChar(follow[c]) = "k" THEN PriceTimes(price, 1000)
    ELSE price

\* the loop without its break: the last acceptable pattern wins
RECURSIVE Analysis_price_loop_nobreak(_, _, _, _, _)
Analysis_price_loop_nobreak(text, min_price, maxp, i, tried) ==
    IF i > Analysis_price_count THEN NotFound(tried)
    ELSE LET m == Analysis_price_patterns(text, i)
             t == Append(tried, i)
             rest == Analysis_price_loop_nobreak(text, min_price, maxp, i + 1, t)
             p == PyFloat(StripCommas(m.g1))
         IN  IF m.ok /\ p.ok /\ Analysis_price_valid(Price(p.v, 1), min_price, maxp)
                /\ rest.val = <<>>
             THEN Found(Analysis_price_value(Price(p.v, 1), m.follow), rest.tried)
             ELSE rest

RECURSIVE Analysis_price_loop(_, _, _, _, _)
Analysis_price_loop(text, min_price, maxp, i, tried) ==
    IF i > Analysis_price_count THEN NotFound(tried)
    ELSE LET m == Analysis_price_patterns(text, i)
             t == Append(tried, i)
         IN  IF ~m.ok THEN Analysis_price_loop(text, min_price, maxp, i + 1, t)
             ELSE LET p == PyFloat(StripCommas(m.g1))
                  IN  IF ~p.ok
                      THEN Analysis_price_loop(text, min_price, maxp, i + 1, t)  \* except ValueError: continue
                      ELSE IF Analysis_price_valid(Price(p.v, 1), min_price, maxp)
                      THEN Found(Analysis_price_value(Price(p.v, 1), m.follow), t)  \* break
                      ELSE Analysis_price_loop(text, min_price, maxp, i + 1, t)

Analysis_extract_price_metrics(text, min_price, maxp) ==
    Analysis_price_loop(text, min_price, maxp, 1, <<>>)

-----------------------------------------------------------------------------
(* ExtractionAgent._extract_price_metrics *)

Extraction_price_count == 4
Extraction_min_price == 100000
Extraction_max_price == 2000000

Extraction_price_patterns(text, i) ==
    CASE i = 1 -> TwoPhrasesThenMoney(text, LAMBDA w : HasMedian(w) \/ HasAverage(w),
                                      HasHomeValue, 2)
      [] i = 2 -> MoneyBeforeMedian(text, 2)
      [] i = 3 -> PhraseThenMoney(text, HasTypicalHomeValue, 2)
      [] i = 4 -> PhraseThenMoney(text, HasMedianListPrice, 2)

\* suffix = group(2).upper(); "M" and "K" multiply
Extraction_price_value(price, g2) ==
    LET suffix == IF g2 = <<>> THEN "" ELSE UpperChar(g2[1])
    IN  IF suffix = "M" THEN PriceTimes(price, 1000000)
        ELSE IF suffix = "K" THEN PriceTimes(price, 1000)
        ELSE price

Extraction_price_valid(price) ==
    PriceWithin(price, Extraction_min_price, Extraction_max_price)

\* the loop without its except clause: the ValueError leaves the method
RECURSIVE Extraction_price_loop_nocatch(_, _, _)
Extraction_price_loop_nocatch(text, i, tried) ==
    IF i > Extraction_price_count THEN NotFound(tried)
    ELSE LET m == Extraction_price_patterns(Lower(text), i)
             t == Append(tried, i)
         IN  IF ~m.ok THEN Extraction_price_loop_nocatch(text, i + 1, t)
             ELSE LET p == PyFloat(StripCommas(m.g1))
                  IN  IF ~p.ok
                      THEN Raised("ValueError", t)
                      ELSE LET price == Extraction_price_value(Price(p.v, 1), m.g2)
                           IN  IF Extraction_price_valid(price)
                               THEN Found(price, t)
                               ELSE Extraction_price_loop_nocatch(text, i + 1, t)

RECURSIVE Extraction_price_loop(_, _, _)
Extraction_price_loop(text, i, tried) ==
    IF i > Extraction_price_count THEN NotFound(tried)
    ELSE LET m == Extraction_price_patterns(Lower(text), i)
             t == Append(tried, i)
         IN  IF ~m.ok THEN Extraction_price_loop(text, i + 1, t)
             ELSE LET p == PyFloat(StripCommas(m.g1))
                  IN  IF ~p.ok
                      THEN Extraction_price_loop(text, i + 1, t)  \* except ValueError: continue
                      ELSE LET price == Extraction_price_value(Price(p.v, 1), m.g2)
                           IN  IF Extraction_price_valid(price)
                               THEN Found(price, t)  \* break
                               ELSE Extraction_price_loop(text, i + 1, t)

Extraction_extract_price_metrics(text) == Extraction_price_loop(text, 1, <<>>)

-----------------------------------------------------------------------------
(* Spelled words: the values of word groups, and the words looked for *)

cUp       == <<"u", "p">>
cDown     == <<"d", "o", "w", "n">>
cIncrease == <<"i", "n", "c", "r", "e", "a", "s", "e">>
cDecrease == <<"d", "e", "c", "r", "e", "a", "s", "e">>
cMinus    == <<"-">>

Spell(w) ==
    CASE w = "up" -> cUp [] w = "down" -> cDown
      [] w = "increase" -> cIncrease [] w = "decrease" -> cDecrease

\* sub in s
Contains(s, sub) ==
    \E i \in 1..(Len(s) - Len(sub) + 1) : SubSeq(s, i, i + Len(sub) - 1) = sub

-----------------------------------------------------------------------------
(* Matching of the percent, count and per-square-foot patterns *)

EndsUpDown(w)        == w \in {"up", "down"}
EndsDownDecreased(w) == w \in {"down", "decreased"}
EndsUpIncreased(w)   == w \in {"up", "increased"}
IsIncDec(w)          == w \in {"increase", "decrease"}
StartsDecrease(w)    == w \in {"decrease", "decreased"}
StartsIncrease(w)    == w \in {"increase", "increased"}
StartsLastYear(w)    == w \in {"since last year", "since last year."}
StartsOneYr(w)       == w \in {"1-yr"}

IsWord(tok, S(_)) == tok.k = "word" /\ S(tok.w)

\* "[0-9.]+" right before the "%" of a percent token
PctRun(tok) == IF tok.k = "pct" THEN TrailRunOf(tok.num, DotChars) ELSE <<>>
\* "\s+([0-9.]+)%": the whole token is digits and "%"
UnsignedPct(tok) == tok.k = "pct" /\ tok.w = "" /\ tok.num # <<>> /\ PctRun(tok) = tok.num
\* "[+-]?[0-9.]+" right before the "%"
SignedPctRun(tok) ==
    IF PctRun(tok) = tok.num /\ tok.w \in {"+", "-"} THEN <<tok.w>> \o tok.num ELSE PctRun(tok)
\* "<sign>([0-9.]+)%"
PctWithSign(tok, sign) == tok.k = "pct" /\ tok.w = sign /\ tok.num # <<>> /\ PctRun(tok) = tok.num

Least(S) == CHOOSE i \in S : \A j \in S : i <= j

\* "(<word>)\s+([0-9.]+)%" followed, when S is given, by "\s+<S>"
WordThenPct(text, E(_), needTail, S(_), n) ==
    LET I == {i \in 1..(Len(text) - 1) :
                /\ IsWord(text[i], E) /\ UnsignedPct(text[i + 1])
                /\ needTail => (i + 2 <= Len(text) /\ IsWord(text[i + 2], S))}
    IN  IF I = {} THEN NoMatch
        ELSE LET i == Least(I)
             IN  IF n = 2 THEN Match(2, Spell(text[i].w), text[i + 1].num, i, <<>>)
                 ELSE Match(1, text[i + 1].num, <<>>, i, <<>>)

\* "([0-9.]+)%\s+<S>"
PctThenWord(text, S(_)) ==
    LET I == {i \in 1..(Len(text) - 1) : PctRun(text[i]) # <<>> /\ IsWord(text[i + 1], S)}
    IN  IF I = {} THEN NoMatch
        ELSE Match(1, PctRun(text[Least(I)]), <<>>, Least(I), <<>>)

\* "([0-9.]+)%\s+(increase|decrease)\s+<S>"
PctWordThenWord(text, W(_), S(_)) ==
    LET I == {i \in 1..(Len(text) - 2) :
                /\ PctRun(text[i]) # <<>>
                /\ IsWord(text[i + 1], W) /\ IsWord(text[i + 2], S)}
    IN  IF I = {} THEN NoMatch
        ELSE Match(2, PctRun(text[Least(I)]), Spell(text[Least(I) + 1].w), Least(I), <<>>)

\* "([+-]?[0-9.]+)%\s+<S>"
SignedPctThenWord(text, S(_)) ==
    LET I == {i \in 1..(Len(text) - 1) : PctRun(text[i]) # <<>> /\ IsWord(text[i + 1], S)}
    IN  IF I = {} THEN NoMatch
        ELSE Match(1, SignedPctRun(text[Least(I)]), <<>>, Least(I), <<>>)

\* "<sign>([0-9.]+)%"
SignPct(text, sign) ==
    LET I == {i \in 1..Len(text) : PctWithSign(text[i], sign)}
    IN  IF I = {} THEN NoMatch ELSE Match(1, text[Least(I)].num, <<>>, Least(I), <<>>)

\* "([class]+) <S>": the run of class characters a token ends with, then a phrase
RunThenWord(text, class, S(_)) ==
    LET I == {i \in 1..(Len(text) - 1) :
                TrailRun(text[i], class) # <<>> /\ IsWord(text[i + 1], S)}
    IN  IF I = {} THEN NoMatch
        ELSE Match(1, TrailRun(text[Least(I)], class), <<>>, Least(I), <<>>)

\* "<E> ([class]+) <S>": a phrase, a token that is one run, a phrase
WordRunWord(text, E(_), class, S(_)) ==
    LET I == {i \in 1..(Len(text) - 2) :
                /\ IsWord(text[i], E) /\ WholeRun(text[i + 1], class)
                /\ IsWord(text[i + 2], S)}
    IN  IF I = {} THEN NoMatch
        ELSE Match(1, text[Least(I) + 1].num, <<>>, Least(I), <<>>)

\* "<E>[:\s]+([class]+)": a phrase, then the run the next token starts with
WordThenRun(text, E(_), class) ==
    LET I == {i \in 1..(Len(text) - 1) :
                IsWord(text[i], E) /\ LeadRun(text[i + 1], class) # <<>>}
    IN  IF I = {} THEN NoMatch
        ELSE Match(1, LeadRun(text[Least(I) + 1], class), <<>>, Least(I), <<>>)

\* "\$([0-9,.]+) <S>": a money token without suffix, then a phrase
MoneyThenWord(text, S(_)) ==
    LET I == {i \in 1..(Len(text) - 1) :
                IsMoney(text[i]) /\ text[i].suf = "" /\ IsWord(text[i + 1], S)}
    IN  IF I = {} THEN NoMatch
        ELSE Match(1, text[Least(I)].num, <<>>, Least(I), <<>>)

-----------------------------------------------------------------------------
(* AnalysisAgent._extract_price_change *)

Analysis_change_count == 3
Analysis_change_ceiling == 50

Analysis_change_patterns(text, i) ==
    CASE i = 1 -> WordThenPct(text, EndsUpDown, TRUE, StartsLastYear, 2)
      [] i = 2 -> PctWordThenWord(text, IsIncDec, StartsLastYear)
      [] i = 3 -> SignedPctThenWord(text, StartsOneYr)

\* lines 119-124: with two groups the number is read from group(2)
Analysis_change_parse(m) ==
    IF m.n = 2
    THEN LET p == PyFloat(m.g2)
         IN  [ok |-> p.ok,
              v  |-> IF Contains(m.g1, cDown) \/ Contains(m.g2, cDecrease)
                     THEN 0 - p.v ELSE p.v]
    ELSE PyFloat(m.g1)

Analysis_change_valid(change) == Abs(change) <= 10 * Analysis_change_ceiling

RECURSIVE Analysis_change_loop(_, _, _)
Analysis_change_loop(text, i, tried) ==
    IF i > Analysis_change_count THEN NotFound(tried)
    ELSE LET m == Analysis_change_patterns(text, i)
             t == Append(tried, i)
         IN  IF ~m.ok THEN Analysis_change_loop(text, i + 1, t)
             ELSE LET p == Analysis_change_parse(m)
                  IN  IF ~p.ok
                      THEN Analysis_change_loop(text, i + 1, t)  \* except ValueError: continue
                      ELSE IF Analysis_change_valid(p.v)
                      THEN Found(p.v, t)  \* break
                      ELSE Analysis_change_loop(text, i + 1, t)

Analysis_extract_price_change(text) == Analysis_change_loop(text, 1, <<>>)

-----------------------------------------------------------------------------
(* ExtractionAgent._extract_price_change *)

Extraction_change_count == 6
Extraction_change_ceiling == 20

\* the pattern strings, as written in change_patterns
Extraction_change_source(i) ==
    CASE
         i = 1 -> <<"(", "?", ":", "d", "o", "w", "n", "|", "d", "e", "c", "r", "e", "a", "s",
              "e", "d", ")", "\\", "s", "+", "(", "[", "0", "-", "9", ".", "]",
              "+", ")", "%">>
      [] i = 2 -> <<"(", "[", "0", "-", "9", ".", "]", "+", ")", "%", "\\", "s", "+", "(", "?",
              ":", "d", "e", "c", "r", "e", "a", "s", "e", ")">>
      [] i = 3 -> <<"-", "(", "[", "0", "-", "9", ".", "]", "+", ")", "%">>
      [] i = 4 -> <<"(", "?", ":", "u", "p", "|", "i", "n", "c", "r", "e", "a", "s", "e", "d",
              ")", "\\", "s", "+", "(", "[", "0", "-", "9", ".", "]", "+", ")",
              "%">>
      [] i = 5 -> <<"(", "[", "0", "-", "9", ".", "]", "+", ")", "%", "\\", "s", "+", "(", "?",
              ":", "i", "n", "c", "r", "e", "a", "s", "e", ")">>
      [] i = 6 -> <<"\\", "+", "(", "[", "0", "-", "9", ".", "]", "+", ")", "%">>

Extraction_change_patterns(text, i) ==
    CASE i = 1 -> WordThenPct(text, EndsDownDecreased, FALSE, EndsDownDecreased, 1)
      [] i = 2 -> PctThenWord(text, StartsDecrease)
      [] i = 3 -> SignPct(text, "-")
      [] i = 4 -> WordThenPct(text, EndsUpIncreased, FALSE, EndsUpIncreased, 1)
      [] i = 5 -> PctThenWord(text, StartsIncrease)
      [] i = 6 -> SignPct(text, "+")

\* any(word in pattern.lower() for word in ["down", "decrease", "-"])
Extraction_change_negative(i) ==
    \E word \in {cDown, cDecrease, cMinus} : Contains(Extraction_change_source(i), word)

Extraction_change_parse(m, i) ==
    LET p == PyFloat(m.g1)
    IN  [ok |-> p.ok, v |-> IF Extraction_change_negative(i) THEN 0 - p.v ELSE p.v]

\* the range check without abs()
Extraction_change_valid_noabs(change) == change <= 10 * Extraction_change_ceiling

Extraction_change_valid(change) == Abs(change) <= 10 * Extraction_change_ceiling

RECURSIVE Extraction_change_loop(_, _, _)
Extraction_change_loop(text, i, tried) ==
    IF i > Extraction_change_count THEN NotFound(tried)
    ELSE LET m == Extraction_change_patterns(Lower(text), i)
             t == Append(tried, i)
         IN  IF ~m.ok THEN Extraction_change_loop(text, i + 1, t)
             ELSE LET p == Extraction_change_parse(m, i)
                  IN  IF ~p.ok
                      THEN Extraction_change_loop(text, i + 1, t)  \* except ValueError: continue
                      ELSE IF Extraction_change_valid(p.v)
                      THEN Found(p.v, t)  \* break
                      ELSE Extraction_change_loop(text, i + 1, t)

Extraction_extract_price_change(text) == Extraction_change_loop(text, 1, <<>>)

-----------------------------------------------------------------------------
(* Phrases of the count patterns *)

EndsSellSoldIn(w)      == w \in {"sold in"}
EndsSellSoldPendingIn(w) == w \in {"sold in", "pending in"}
EndsPendingIn(w)       == w \in {"pending in"}
EndsAverageMedian(w)   == w \in {"average", "median"}
EndsDaysOnMarket(w)    == w \in {"days on market"}
EndsListingAgeOf(w)    == w \in {"average listing age of"}
EndsInventoryOf(w)     == w \in {"inventory of"}
StartsDays(w)          == w \in {"days", "days on market", "days on the market."}
StartsDaysOnMarket(w)  == w \in {"days on market", "days on the market."}
StartsHomes(w)         == w \in {"homes", "homes for sale", "homes for sale.", "homes sold"}
StartsHomesForSale(w)  == w \in {"homes for sale", "homes for sale."}
StartsPropertiesForSale(w) == w \in {"properties for sale"}
StartsAnyForSale(w)    == w \in {"homes for sale", "homes for sale.", "properties for sale"}
StartsTotalListings(w) == w \in {"total listings"}
StartsPropertiesFound(w) == w \in {"properties found"}
StartsHomesSold(w)     == w \in {"homes sold"}
StartsPerSquareFoot(w) == w \in {"per square foot"}
HasPricePerFoot(w)     == w \in {"price per square foot"}

-----------------------------------------------------------------------------
(* AnalysisAgent._extract_market_metrics *)

Analysis_dom_count == 4
Analysis_dom_ceiling == 365
Analysis_sqft_count == 2
Analysis_sqft_min == 50
Analysis_sqft_max == 2000
Analysis_inv_count == 3
Analysis_inv_ceiling == 10000

Analysis_dom_patterns(text, i) ==
    CASE i = 1 -> WordRunWord(text, EndsSellSoldIn, Digits, StartsDays)
      [] i = 2 -> WordRunWord(text, EndsAverageMedian, Digits, StartsDaysOnMarket)
      [] i = 3 -> RunThenWord(text, Digits, StartsDaysOnMarket)
      [] i = 4 -> WordRunWord(text, EndsPendingIn, Digits, StartsDays)

Analysis_dom_valid(days) == 0 <= days /\ days <= Analysis_dom_ceiling

RECURSIVE Analysis_dom_loop(_, _, _)
Analysis_dom_loop(text, i, tried) ==
    IF i > Analysis_dom_count THEN NotFound(tried)
    ELSE LET m == Analysis_dom_patterns(text, i)
             t == Append(tried, i)
         IN  IF ~m.ok THEN Analysis_dom_loop(text, i + 1, t)
             ELSE LET p == PyInt(m.g1)
                  IN  IF ~p.ok
                      THEN Analysis_dom_loop(text, i + 1, t)  \* except ValueError: continue
                      ELSE IF Analysis_dom_valid(p.v)
                      THEN Found(p.v, t)  \* break
                      ELSE Analysis_dom_loop(text, i + 1, t)

Analysis_sqft_patterns(text, i) ==
    CASE i = 1 -> MoneyThenWord(text, StartsPerSquareFoot)
      [] i = 2 -> PhraseThenMoney(text, HasPricePerFoot, 1)

Analysis_sqft_valid(price_sqft) ==
    10 * Analysis_sqft_min <= price_sqft /\ price_sqft <= 10 * Analysis_sqft_max

RECURSIVE Analysis_sqft_loop(_, _, _)
Analysis_sqft_loop(text, i, tried) ==
    IF i > Analysis_sqft_count THEN NotFound(tried)
    ELSE LET m == Analysis_sqft_patterns(text, i)
             t == Append(tried, i)
         IN  IF ~m.ok THEN Analysis_sqft_loop(text, i + 1, t)
             ELSE LET p == PyFloat(StripCommas(m.g1))
                  IN  IF ~p.ok
                      THEN Analysis_sqft_loop(text, i + 1, t)  \* except ValueError: continue
                      ELSE IF Analysis_sqft_valid(p.v)
                      THEN Found(p.v, t)  \* break
                      ELSE Analysis_sqft_loop(text, i + 1, t)

Analysis_inv_patterns(text, i) ==
    CASE i = 1 -> RunThenWord(text, CommaChars, StartsHomesForSale)
      [] i = 2 -> WordRunWord(text, EndsInventoryOf, CommaChars, StartsHomes)
      [] i = 3 -> RunThenWord(text, CommaChars, StartsPropertiesForSale)

Analysis_inv_valid(inventory) == 0 <= inventory /\ inventory <= Analysis_inv_ceiling

RECURSIVE Analysis_inv_loop(_, _, _)
Analysis_inv_loop(text, i, tried) ==
    IF i > Analysis_inv_count THEN NotFound(tried)
    ELSE LET m == Analysis_inv_patterns(text, i)
             t == Append(tried, i)
         IN  IF ~m.ok THEN Analysis_inv_loop(text, i + 1, t)
             ELSE LET p == PyInt(StripCommas(m.g1))
                  IN  IF ~p.ok
                      THEN Analysis_inv_loop(text, i + 1, t)  \* except ValueError: continue
                      ELSE IF Analysis_inv_valid(p.v)
                      THEN Found(p.v, t)  \* break
                      ELSE Analysis_inv_loop(text, i + 1, t)

\* the three loops run in this order; an exception leaving one ends the method
Analysis_extract_market_metrics(text) ==
    LET d == Analysis_dom_loop(text, 1, <<>>)
        q == IF d.exc = "none" THEN Analysis_sqft_loop(text, 1, <<>>) ELSE NotRun
        v == IF d.exc = "none" /\ q.exc = "none" THEN Analysis_inv_loop(text, 1, <<>>) ELSE NotRun
    IN  [dom |-> d, sqft |-> q, inv |-> v]

-----------------------------------------------------------------------------
(* ExtractionAgent._extract_market_metrics *)

Extraction_dom_count == 5
Extraction_dom_ceiling == 180
Extraction_inv_count == 5
Extraction_inv_ceiling == 50000

Extraction_dom_patterns(text, i) ==
    CASE i = 1 -> WordThenRun(text, EndsDaysOnMarket, Digits)
      [] i = 2 -> WordRunWord(text, EndsSellSoldPendingIn, Digits, StartsDays)
      [] i = 3 -> WordRunWord(text, EndsAverageMedian, Digits, StartsDaysOnMarket)
      [] i = 4 -> RunThenWord(text, Digits, StartsDaysOnMarket)
      [] i = 5 -> WordRunWord(text, EndsListingAgeOf, Digits, StartsDays)

Extraction_dom_valid(days) == 0 <= days /\ days <= Extraction_dom_ceiling

RECURSIVE Extraction_dom_loop(_, _, _)
Extraction_dom_loop(text, i, tried) ==
    IF i > Extraction_dom_count THEN NotFound(tried)
    ELSE LET m == Extraction_dom_patterns(Lower(text), i)
             t == Append(tried, i)
         IN  IF ~m.ok THEN Extraction_dom_loop(text, i + 1, t)
             ELSE LET p == PyInt(m.g1)
                  IN  IF ~p.ok
                      THEN Extraction_dom_loop(text, i + 1, t)  \* except ValueError: continue
                      ELSE IF Extraction_dom_valid(p.v)
                      THEN Found(p.v, t)  \* break
                      ELSE Extraction_dom_loop(text, i + 1, t)

Extraction_inv_patterns(text, i) ==
    CASE i = 1 -> RunThenWord(text, CommaChars, StartsAnyForSale)
      [] i = 2 -> WordThenRun(text, EndsInventoryOf, CommaChars)
      [] i = 3 -> RunThenWord(text, CommaChars, StartsTotalListings)
      [] i = 4 -> RunThenWord(text, CommaChars, StartsPropertiesFound)
      [] i = 5 -> RunThenWord(text, CommaChars, StartsHomesSold)

Extraction_inv_valid(inventory) == 0 <= inventory /\ inventory <= Extraction_inv_ceiling

RECURSIVE Extraction_inv_loop(_, _, _)
Extraction_inv_loop(text, i, tried) ==
    IF i > Extraction_inv_count THEN NotFound(tried)
    ELSE LET m == Extraction_inv_patterns(Lower(text), i)
             t == Append(tried, i)
         IN  IF ~m.ok THEN Extraction_inv_loop(text, i + 1, t)
             ELSE LET p == PyInt(StripCommas(m.g1))
                  IN  IF ~p.ok
                      THEN Extraction_inv_loop(text, i + 1, t)  \* except ValueError: continue
                      ELSE IF Extraction_inv_valid(p.v)
                      THEN Found(p.v, t)  \* break
                      ELSE Extraction_inv_loop(text, i + 1, t)

Extraction_extract_market_metrics(text) ==
    LET d == Extraction_dom_loop(text, 1, <<>>)
        v == IF d.exc = "none" THEN Extraction_inv_loop(text, 1, <<>>) ELSE NotRun
    IN  [dom |-> d, sqft |-> NotRun, inv |-> v]

-----------------------------------------------------------------------------
(* The documents explored *)

MaxLen == 3   \* longest token sequence drawn freely from one vocabulary

n450000   == <<"4", "5", "0", ",", "0", "0", "0">>
n300000   == <<"3", "0", "0", ",", "0", "0", "0">>
n1_2      == <<"1", ".", "2">>
n500      == <<"5", "0", "0">>
nBad      == <<"1", ".", "2", ".", "3">>
n3000000  == <<"3", ",", "0", "0", "0", ",", "0", "0", "0">>
n5        == <<"5">>
n5_2      == <<"5", ".", "2">>
n3_2      == <<"3", ".", "2">>
n35       == <<"3", "5">>
n60       == <<"6", "0">>
n28       == <<"2", "8">>
n45       == <<"4", "5">>
n200      == <<"2", "0", "0">>
n400      == <<"4", "0", "0">>
n300      == <<"3", "0", "0">>
n250      == <<"2", "5", "0">>
n30       == <<"3", "0">>
n3000     == <<"3", ",", "0", "0", "0">>
n1200     == <<"1", ",", "2", "0", "0">>
n20000    == <<"2", "0", ",", "0", "0", "0">>
n60000    == <<"6", "0", ",", "0", "0", "0">>
nComma    == <<",">>
n450000c  == <<"4", "5", "0", ",", "0", "0", "0", ",">>

\* "The median home value is $450,000, down 3.2% since last year. Homes are
\* selling in 28 days on the market. There are 1,200 homes for sale."
ExampleText ==
    <<Word("The"), Word("median"), Word("home value"), Word("is"), Money(n450000c, ""),
      Word("down"), Pct("", n3_2), Word("since last year."),
      Word("Homes"), Word("are selling in"), Num(n28), Word("days on the market."),
      Word("There are"), Num(n1200), Word("homes for sale.")>>

PriceVocab ==
    {Word("median price"), Word("median"), Word("home value"), Word("median list price"),
     Money(n450000, ""), Money(n1_2, "M"), Money(n500, "K"),
     Money(nBad, ""), Money(n3000000, "")}

ChangeVocab ==
    {Word("up"), Word("down"), Word("increase"), Word("decrease"),
     Word("since last year"),
     Pct("", n5), Pct("+", n5_2), Pct("-", n3_2), Pct("", n35)}

DomVocab ==
    {Word("sold in"), Word("pending in"), Word("days"), Word("days on market"),
     Word("median"), Word("average listing age of"),
     Num(n28), Num(n200)}

SqftVocab ==
    {Word("per square foot"), Word("price per square foot"),
     Money(n300, ""), Money(n250, ""), Money(n30, ""), Money(n3000, ""), Money(nBad, "")}

InvVocab ==
    {Word("homes for sale"), Word("inventory of"),
     Word("properties for sale"), Word("total listings"), Word("properties found"),
     Word("homes sold"),
     Num(n1200), Num(n60000), Num(nComma)}

Vocabs == {PriceVocab, ChangeVocab, DomVocab, SqftVocab, InvVocab}

SeqsUpTo(V, n) == UNION {[1..k -> V] : k \in 1..n}

\* longer documents: a malformed amount beside well-formed metrics of other
\* categories, an earlier pattern rejected before a later one of the same
\* category, and the phrases the vocabularies leave out
MixedTexts ==
    {<<Word("median price"), Money(nBad, ""), Num(n28), Word("days on market"),
       Num(n1200), Word("homes for sale")>>,
     <<Word("median price"), Money(n450000, ""), Word("down"), Pct("", n3_2),
       Word("since last year"), Num(nComma), Word("homes for sale")>>,
     <<Word("up"), Pct("", n60), Word("since last year"), Pct("-", n3_2), Word("1-yr")>>,
     <<Word("up"), Pct("", n5), Word("since last year"), Pct("-", n3_2), Word("1-yr")>>,
     <<Pct("", n5), Word("increase"), Word("since last year"), Pct("-", n3_2), Word("1-yr")>>,
     <<Word("sold in"), Num(n400), Word("days"), Num(n28), Word("days on market")>>,
     <<Word("sold in"), Num(n45), Word("days"), Num(n28), Word("days on market")>>,
     <<Num(n20000), Word("homes for sale"), Num(n1200), Word("properties for sale")>>,
     <<Word("average"), Word("home value"), Money(n450000, "")>>,
     <<Word("typical home value"), Money(n300000, ""), Word("median list price"),
       Money(n450000, "")>>,
     <<Pct("+", n5_2), Word("1-yr")>>,
     <<Word("up"), Pct("", nBad), Word("since last year"), Pct("-", n3_2), Word("1-yr")>>,
     <<Word("down"), Pct("", nBad), Pct("", n5), Word("increase")>>,
     ExampleText}

Texts == (UNION {SeqsUpTo(V, MaxLen) : V \in Vocabs}) \cup MixedTexts

-----------------------------------------------------------------------------
(* Bounds of AnalysisAgent.analyze_market_data *)

Analysis_min_price      == 10000
Analysis_max_price      == 2000000
Analysis_max_price_high == 10000000
min_valid_price         == 100000
max_valid_price_normal  == 1000000
max_valid_price_high    == 5000000

NoMarket == [dom |-> NotRun, sqft |-> NotRun, inv |-> NotRun]

MarketExc(m) ==
    IF m.dom.exc # "none" THEN m.dom.exc
    ELSE IF m.sqft.exc # "none" THEN m.sqft.exc ELSE m.inv.exc

-----------------------------------------------------------------------------
(* One document through one extractor: the three calls of lines 52-54 of   *)
(* analysis_agent.py, or of lines 206-208 of extraction_agent.py.  Both    *)
(* callers skip an empty text, so the documents are non-empty.             *)

InitExtract ==
    /\ raw \in Texts
    /\ agent \in {"analysis", "extraction"}
    /\ max_price \in IF agent = "analysis"
                     THEN {Analysis_max_price, Analysis_max_price_high}
                     ELSE {Extraction_max_price}
    /\ pc = "price"
    /\ price_out = NotRun
    /\ change_out = NotRun
    /\ market_out = NoMarket
    /\ extracted = <<>>

AnalyzeIdle ==
    /\ location = <<>>
    /\ market_data = <<>>
    /\ apc = "idle"
    /\ idx = 0
    /\ metrics = <<>>
    /\ report = <<>>
    /\ charges = <<>>
    /\ aborted = FALSE
    /\ averages = <<>>

Init == InitExtract /\ AnalyzeIdle /\ OtherIdle

After(out, next) == IF out.exc = "none" THEN next ELSE "raised"

A_extract_price_metrics ==
    /\ agent = "analysis" /\ pc = "price"
    /\ price_out' = Analysis_extract_price_metrics(Lower(raw), Analysis_min_price, max_price)
    /\ pc' = After(price_out', "change")
    /\ UNCHANGED <<agent, raw, max_price, change_out, market_out, extracted, analyzeVars, otherVars>>

A_extract_price_change ==
    /\ agent = "analysis" /\ pc = "change"
    /\ change_out' = Analysis_extract_price_change(Lower(raw))
    /\ pc' = After(change_out', "market")
    /\ UNCHANGED <<agent, raw, max_price, price_out, market_out, extracted, analyzeVars, otherVars>>

A_extract_market_metrics ==
    /\ agent = "analysis" /\ pc = "market"
    /\ market_out' = Analysis_extract_market_metrics(Lower(raw))
    /\ pc' = IF MarketExc(market_out') = "none" THEN "done" ELSE "raised"
    /\ UNCHANGED <<agent, raw, max_price, price_out, change_out, extracted, analyzeVars, otherVars>>

E_extract_price_metrics ==
    /\ agent = "extraction" /\ pc = "price"
    /\ price_out' = Extraction_extract_price_metrics(raw)
    /\ pc' = After(price_out', "change")
    /\ UNCHANGED <<agent, raw, max_price, change_out, market_out, extracted, analyzeVars, otherVars>>

E_extract_price_change ==
    /\ agent = "extraction" /\ pc = "change"
    /\ change_out' = Extraction_extract_price_change(raw)
    /\ pc' = After(change_out', "market")
    /\ UNCHANGED <<agent, raw, max_price, price_out, market_out, extracted, analyzeVars, otherVars>>

E_extract_market_metrics ==
    /\ agent = "extraction" /\ pc = "market"
    /\ market_out' = Extraction_extract_market_metrics(raw)
    /\ pc' = IF MarketExc(market_out') = "none" THEN "done" ELSE "raised"
    /\ UNCHANGED <<agent, raw, max_price, price_out, change_out, extracted, analyzeVars, otherVars>>

\* dict.get(key, 0) on an extractor's result: the dataclass field always
\* holds a number
GetOrZero(r, zero) == IF r.val = <<>> THEN <<zero>> ELSE r.val

\* MarketData(...) of lines 214-220
MarketData(p, c, m, source) ==
    [median_price   |-> GetOrZero(p, Price(0, 1)),
     price_change   |-> GetOrZero(c, 0),
     inventory      |-> GetOrZero(m.inv, 0),
     days_on_market |-> GetOrZero(m.dom, 0),
     source         |-> source]

\* extract_data lines 210-222 for the document just parsed: with any metric
\* found, Actor.charge('data-extracted') and the append; a charge that raises
\* is caught by the except clause of line 227, which ends the method
E_append_market_data ==
    /\ agent = "extraction" /\ pc = "done"
    /\ IF price_out.val # <<>> \/ change_out.val # <<>>
          \/ market_out.dom.val # <<>> \/ market_out.inv.val # <<>>
       THEN \E ok \in BOOLEAN :
              IF ok
              THEN /\ extracted' = Append(extracted,
                                         MarketData(price_out, change_out, market_out, "zillow"))
                   /\ pc' = "appended"
              ELSE /\ pc' = "failed"
                   /\ UNCHANGED extracted
       ELSE /\ pc' = "skipped"
            /\ UNCHANGED extracted
    /\ UNCHANGED <<agent, raw, max_price, price_out, change_out, market_out, analyzeVars, otherVars>>

Next ==
    \/ A_extract_price_metrics
    \/ A_extract_price_change
    \/ A_extract_market_metrics
    \/ E_extract_price_metrics
    \/ E_extract_price_change
    \/ E_extract_market_metrics
    \/ E_append_market_data

Spec == Init /\ [][Next]_vars

-----------------------------------------------------------------------------
(* What each pattern of a category yields on the current document, stated  *)
(* pattern by pattern: matched, the number read, whether the category's    *)
(* check accepts it, and the value that would be stored.                   *)

\* the text the patterns are searched in: both callers lower-case it
Seen == Lower(raw)

Cand(matched, parsed, good, v) ==
    [matched |-> matched, parsed |-> parsed, good |-> matched /\ parsed /\ good, v |-> v]

PriceCount == IF agent = "analysis" THEN Analysis_price_count ELSE Extraction_price_count
PriceCand(i) ==
    IF agent = "analysis"
    THEN LET m == Analysis_price_patterns(Seen, i)
             p == PyFloat(StripCommas(m.g1))
         IN  Cand(m.ok, p.ok,
                  Analysis_price_valid(Price(p.v, 1), Analysis_min_price, max_price),
                  Analysis_price_value(Price(p.v, 1), m.follow))
    ELSE LET m == Extraction_price_patterns(Seen, i)
             p == PyFloat(StripCommas(m.g1))
             v == Extraction_price_value(Price(p.v, 1), m.g2)
         IN  Cand(m.ok, p.ok, Extraction_price_valid(v), v)

ChangeCount == IF agent = "analysis" THEN Analysis_change_count ELSE Extraction_change_count
ChangeCand(i) ==
    IF agent = "analysis"
    THEN LET m == Analysis_change_patterns(Seen, i)
             p == Analysis_change_parse(m)
         IN  Cand(m.ok, p.ok, Analysis_change_valid(p.v), p.v)
    ELSE LET m == Extraction_change_patterns(Seen, i)
             p == Extraction_change_parse(m, i)
         IN  Cand(m.ok, p.ok, Extraction_change_valid(p.v), p.v)

DomCount == IF agent = "analysis" THEN Analysis_dom_count ELSE Extraction_dom_count
DomCand(i) ==
    IF agent = "analysis"
    THEN LET m == Analysis_dom_patterns(Seen, i)
             p == PyInt(m.g1)
         IN  Cand(m.ok, p.ok, Analysis_dom_valid(p.v), p.v)
    ELSE LET m == Extraction_dom_patterns(Seen, i)
             p == PyInt(m.g1)
         IN  Cand(m.ok, p.ok, Extraction_dom_valid(p.v), p.v)

SqftCand(i) ==
    LET m == Analysis_sqft_patterns(Seen, i)
        p == PyFloat(StripCommas(m.g1))
    IN  Cand(m.ok, p.ok, Analysis_sqft_valid(p.v), p.v)

InvCount == IF agent = "analysis" THEN Analysis_inv_count ELSE Extraction_inv_count
InvCand(i) ==
    IF agent = "analysis"
    THEN LET m == Analysis_inv_patterns(Seen, i)
             p == PyInt(StripCommas(m.g1))
         IN  Cand(m.ok, p.ok, Analysis_inv_valid(p.v), p.v)
    ELSE LET m == Extraction_inv_patterns(Seen, i)
             p == PyInt(StripCommas(m.g1))
         IN  Cand(m.ok, p.ok, Extraction_inv_valid(p.v), p.v)

UpTo(n) == [i \in 1..n |-> i]

\* the extractor has just returned; the later steps leave its result, the
\* document and the bounds unchanged
PriceRan  == pc = "change"
ChangeRan == pc = "market"
MarketRan == pc = "done"

\* the loop stopped at the lowest-index pattern that matched with an accepted
\* value, stored that pattern's value and evaluated the patterns 1..that one
\* once each, in order; with no such pattern it evaluated all and stored nothing
FirstWins(r, n, C(_)) ==
    LET cs == [i \in 1..n |-> C(i)]
        G  == {i \in 1..n : cs[i].good}
    IN  IF G = {} THEN r.val = <<>> /\ r.tried = UpTo(n)
        ELSE \E g \in G :
               /\ \A j \in G : g <= j
               /\ r.val = <<cs[g].v>> /\ r.tried = UpTo(g)

\* two patterns of the category are both acceptable, with different values
TwoGood(n, C(_)) ==
    \E i, j \in 1..n : i < j /\ C(i).good /\ C(j).good /\ C(i).v # C(j).v

\* C1: in every category the patterns are evaluated in their declared order
\* and the value stored is that of the lowest-index pattern that matches and
\* passes the category's check; no later pattern is evaluated, none is
\* retried, and an earlier acceptable pattern beats a later one.
C1_FirstValidPatternWins ==
    /\ PriceRan => FirstWins(price_out, PriceCount, PriceCand)
    /\ ChangeRan => FirstWins(change_out, ChangeCount, ChangeCand)
    /\ MarketRan =>
         /\ FirstWins(market_out.dom, DomCount, DomCand)
         /\ agent = "analysis" => FirstWins(market_out.sqft, Analysis_sqft_count, SqftCand)
         /\ FirstWins(market_out.inv, InvCount, InvCand)

C1_Witness ==
    /\ pc = "done"
    /\ TwoGood(PriceCount, PriceCand) \/ TwoGood(ChangeCount, ChangeCand)
         \/ TwoGood(DomCount, DomCand)
    /\ price_out.val # <<>> \/ change_out.val # <<>> \/ market_out.dom.val # <<>>

-----------------------------------------------------------------------------
(* Prices as the claims read them *)

\* the two prices denote the same amount
PriceEq(a, b) ==
    IF a.mult >= b.mult
    THEN b.t % (a.mult \div b.mult) = 0 /\ b.t \div (a.mult \div b.mult) = a.t
    ELSE a.t % (b.mult \div a.mult) = 0 /\ a.t \div (b.mult \div a.mult) = b.t

PriceMatch(i) ==
    IF agent = "analysis" THEN Analysis_price_patterns(Seen, i)
    ELSE Extraction_price_patterns(Seen, i)

MinPrice == IF agent = "analysis" THEN Analysis_min_price ELSE Extraction_min_price

\* pattern i is the first pattern of the list that matches the document
FirstMatching(i, M(_)) == M(i).ok /\ \A j \in 1..(i - 1) : ~M(j).ok

UnitOf(suf) == IF suf \in {"M", "m"} THEN 1000000 ELSE 1000

\* C2: a matched "$X" with the suffix K or M right after the digits is stored
\* as X * 1,000 or X * 1,000,000 when the product lies inside the extraction
\* bounds, and nothing is stored when it lies outside them.
C2_SuffixMultiplies ==
    PriceRan =>
      \A i \in 1..PriceCount :
        LET m == PriceMatch(i)
            x == PyFloat(StripCommas(m.g1))
            product == Price(x.v, UnitOf(raw[m.at].suf))
        IN  (FirstMatching(i, PriceMatch) /\ x.ok /\ raw[m.at].suf \in {"K", "M", "k", "m"}) =>
              IF PriceWithin(product, MinPrice, max_price)
              THEN price_out.val # <<>> /\ PriceEq(price_out.val[1], product)
              ELSE (\A j \in 1..PriceCount : PriceMatch(j).ok => PriceMatch(j).at = m.at)
                     => price_out.val = <<>>

\* C3: AnalysisAgent stores a matched "$X" without unit suffix, X inside the
\* bounds, as X exactly, whatever follows the amount in the text.
C3_NoSuffixStoredExactly ==
    (agent = "analysis" /\ PriceRan) =>
      \A i \in 1..PriceCount :
        LET m == PriceMatch(i)
            x == PyFloat(StripCommas(m.g1))
        IN  (/\ FirstMatching(i, PriceMatch) /\ x.ok /\ raw[m.at].suf = ""
             /\ PriceWithin(Price(x.v, 1), MinPrice, max_price))
            => price_out.val # <<>> /\ PriceEq(price_out.val[1], Price(x.v, 1))

\* C4: every stored median_price lies within the extraction bounds of the run.
C4_StoredPriceWithinBounds ==
    (PriceRan /\ price_out.val # <<>>) =>
      PriceWithin(price_out.val[1], MinPrice, max_price)

-----------------------------------------------------------------------------
(* Price changes as the claims read them *)

\* the direction the words of ExtractionAgent's pattern i state: patterns 1-3
\* read "down/decreased", "decrease", "-"; patterns 4-6 "up/increased",
\* "increase", "+"
StatedDirection(i) == IF i <= 3 THEN 0 - 1 ELSE 1

\* C5: ExtractionAgent stores +X for "up X%", "increased X%", "X% increase",
\* "+X%" and -X for "down X%", "decreased X%", "X% decrease", "-X%" (X <= 20).
C5_ExtractionSignMatchesWord ==
    (agent = "extraction" /\ ChangeRan) =>
      \A i \in 1..Extraction_change_count :
        LET M(j) == Extraction_change_patterns(Seen, j)
            x == PyFloat(M(i).g1)
        IN  (FirstMatching(i, M) /\ x.ok /\ x.v <= 10 * Extraction_change_ceiling)
            => change_out.val = <<StatedDirection(i) * x.v>>

\* the magnitude and the direction the phrase matched by AnalysisAgent's
\* pattern i states
AnalysisMagnitude(m, i) ==
    IF i = 1 THEN PyFloat(m.g2)
    ELSE IF m.g1 # <<>> /\ Head(m.g1) \in {"+", "-"} THEN PyFloat(Tail(m.g1))
    ELSE PyFloat(m.g1)
AnalysisDirection(m, i) ==
    IF i = 1 THEN (IF m.g1 = cDown THEN 0 - 1 ELSE 1)
    ELSE IF i = 2 THEN (IF m.g2 = cDecrease THEN 0 - 1 ELSE 1)
    ELSE (IF m.g1 # <<>> /\ Head(m.g1) = "-" THEN 0 - 1 ELSE 1)

\* C6: AnalysisAgent stores, for each supported phrase with X <= 50, a
\* price_change of magnitude X whose sign matches the word or symbol.
C6_AnalysisChangeStored ==
    (agent = "analysis" /\ ChangeRan) =>
      \A i \in 1..Analysis_change_count :
        LET M(j) == Analysis_change_patterns(Seen, j)
            x == AnalysisMagnitude(M(i), i)
        IN  (FirstMatching(i, M) /\ x.ok /\ x.v <= 10 * Analysis_change_ceiling)
            => change_out.val = <<AnalysisDirection(M(i), i) * x.v>>

-----------------------------------------------------------------------------
(* Plausibility ranges *)

ChangeCeiling == IF agent = "analysis" THEN Analysis_change_ceiling ELSE Extraction_change_ceiling
DomCeiling    == IF agent = "analysis" THEN Analysis_dom_ceiling ELSE Extraction_dom_ceiling
InvCeiling    == IF agent = "analysis" THEN Analysis_inv_ceiling ELSE Extraction_inv_ceiling

\* the patterns the loop handed to re.search
Tried(r) == {r.tried[k] : k \in 1..Len(r.tried)}

\* a pattern that was evaluated and matched a number outside the range did
\* not have its value stored, and the loop went on to the next pattern
RejectedSkipped(r, n, C(_)) ==
    \A i \in Tried(r) :
      LET c == C(i)
      IN  (c.matched /\ c.parsed /\ ~c.good) =>
            (r.val # <<c.v>> /\ (i < n => Len(r.tried) > i))

\* a pattern before the one that won matched a number outside the range
RejectedThenStored(r, C(_)) ==
    /\ r.val # <<>>
    /\ \E i \in 1..(Len(r.tried) - 1) : C(i).matched /\ C(i).parsed /\ ~C(i).good

\* C7: every stored value satisfies its category's range; a candidate outside
\* the range is not stored and the next pattern is tried.
C7_StoredValuesInRange ==
    /\ (ChangeRan /\ change_out.val # <<>>) =>
          Abs(change_out.val[1]) <= 10 * ChangeCeiling
    /\ MarketRan =>
         /\ market_out.dom.val # <<>> =>
              (0 <= market_out.dom.val[1] /\ market_out.dom.val[1] <= DomCeiling)
         /\ market_out.sqft.val # <<>> =>
              (/\ 10 * Analysis_sqft_min <= market_out.sqft.val[1]
               /\ market_out.sqft.val[1] <= 10 * Analysis_sqft_max)
         /\ market_out.inv.val # <<>> =>
              (0 <= market_out.inv.val[1] /\ market_out.inv.val[1] <= InvCeiling)
         /\ RejectedSkipped(change_out, ChangeCount, ChangeCand)
         /\ RejectedSkipped(market_out.dom, DomCount, DomCand)
         /\ RejectedSkipped(market_out.inv, InvCount, InvCand)

C7_Witness ==
    /\ pc = "done"
    /\ RejectedThenStored(change_out, ChangeCand)
    /\ agent = "extraction"

-----------------------------------------------------------------------------
(* Malformed numeric tokens *)

\* pattern i matched and its captured token did not convert
Malformed(C(_), i) == LET c == C(i) IN c.matched /\ ~c.parsed

\* after a malformed match at pattern i the loop went on to pattern i + 1
\* and the value stored, if any, is another pattern's
Continued(r, n, C(_)) ==
    \A i \in Tried(r) :
      Malformed(C, i) =>
        /\ i < n => Len(r.tried) > i
        /\ r.val # <<>> => r.tried[Len(r.tried)] # i

\* C8: a matched token that does not convert counts as a non-match: the
\* loop continues with the next pattern, no exception leaves the extractor
\* and the other categories are still extracted.
C8_MalformedTokenIsNonMatch ==
    /\ pc # "raised"
    /\ price_out.exc = "none" /\ change_out.exc = "none" /\ MarketExc(market_out) = "none"
    /\ PriceRan => Continued(price_out, PriceCount, PriceCand)
    /\ ChangeRan => Continued(change_out, ChangeCount, ChangeCand)
    /\ MarketRan =>
         /\ Continued(market_out.dom, DomCount, DomCand)
         /\ Continued(market_out.inv, InvCount, InvCand)
         /\ agent = "analysis" => Continued(market_out.sqft, Analysis_sqft_count, SqftCand)
         /\ price_out.tried # <<>> /\ change_out.tried # <<>>
         /\ market_out.dom.tried # <<>> /\ market_out.inv.tried # <<>>

C8_Witness ==
    /\ pc = "done"
    /\ \E i \in 1..PriceCount : Malformed(PriceCand, i)
    /\ price_out.val = <<>>
    /\ market_out.dom.val # <<>> /\ market_out.inv.val # <<>>

-----------------------------------------------------------------------------
(* AnalysisAgent.analyze_market_data *)

\* a location is the sequence of its characters
LowerSeq(cs) == [i \in 1..Len(cs) |-> LowerChar(cs[i])]

high_cost_markets ==
    <<<<"n", "e", "w", " ", "y", "o", "r", "k">>,
      <<"s", "a", "n", " ", "f", "r", "a", "n", "c", "i", "s", "c", "o">>,
      <<"l", "o", "s", " ", "a", "n", "g", "e", "l", "e", "s">>,
      <<"s", "e", "a", "t", "t", "l", "e">>,
      <<"b", "o", "s", "t", "o", "n">>,
      <<"m", "i", "a", "m", "i">>>>

\* the test without location.lower(): the market names are lower-case
IsHighCost_cased(loc) ==
    \E k \in 1..Len(high_cost_markets) : Contains(loc, high_cost_markets[k])

\* any(market.lower() in location.lower() for market in self.high_cost_markets)
IsHighCost(loc) ==
    \E k \in 1..Len(high_cost_markets) :
        Contains(LowerSeq(loc), LowerSeq(high_cost_markets[k]))

MaxExtractPrice(loc) == IF IsHighCost(loc) THEN Analysis_max_price_high ELSE Analysis_max_price
MaxValidPrice(loc)   == IF IsHighCost(loc) THEN max_valid_price_high ELSE max_valid_price_normal

MetricKeys == {"median_price", "price_change", "days_on_market", "price_per_sqft", "inventory"}

\* a source's dict: a key that is absent holds <<>>, a key that is present <<value>>
EmptyRecord ==
    [median_price |-> <<>>, price_change |-> <<>>, days_on_market |-> <<>>,
     price_per_sqft |-> <<>>, inventory |-> <<>>, source_date |-> <<>>]

\* the test of a dict that already holds its source_date
NonEmpty_dated(rec) == TRUE

\* bool(d) of a source's dict
NonEmpty(rec) == \E key \in DOMAIN rec : rec[key] # <<>>

\* d.update({key: value}) with the result of one pattern loop
Update(rec, key, r) == IF r.val = <<>> THEN rec ELSE [rec EXCEPT ![key] = r.val]

InitialMetrics == [s \in {"zillow", "redfin", "realtor", "rapid"} |-> EmptyRecord]

\* the three updates of lines 52-54 with the extractors' results p, c, m, in
\* order; an exception leaving an extractor leaves the later updates undone
Updated(rec, p, c, m) ==
    IF p.exc # "none" THEN [rec |-> rec, exc |-> p.exc]
    ELSE IF c.exc # "none"
    THEN [rec |-> Update(rec, "median_price", p), exc |-> c.exc]
    ELSE IF MarketExc(m) # "none"
    THEN [rec |-> Update(Update(rec, "median_price", p), "price_change", c),
          exc |-> MarketExc(m)]
    ELSE [rec |-> Update(Update(Update(Update(Update(rec, "median_price", p),
                                              "price_change", c),
                                       "days_on_market", m.dom),
                                "price_per_sqft", m.sqft),
                         "inventory", m.inv),
          exc |-> "none"]

\* lines 52-54 on one source's dict
ExtractInto(rec, text, maxp) ==
    Updated(rec,
            Analysis_extract_price_metrics(text, Analysis_min_price, maxp),
            Analysis_extract_price_change(text),
            Analysis_extract_market_metrics(text))

\* charge_event: Actor.charge is called and may raise; the failure is logged
Charge(event, ok) == Append(charges, [event |-> event, ok |-> ok])

\* lines 26-40: the metrics dict, the 'analysis-init' charge, the bounds
AnalyzeStart ==
    /\ apc = "call"
    /\ metrics' = InitialMetrics
    /\ \E ok \in BOOLEAN : charges' = Charge("analysis-init", ok)
    /\ idx' = 1
    /\ apc' = IF Len(market_data) = 0 THEN "finish" ELSE "loop"
    /\ UNCHANGED <<location, market_data, report, aborted, averages, extractVars, otherVars>>

\* lines 52-60 with a charge whose failure is not swallowed: the exception
\* reaches the except clause of line 62 before source_date is written
Processed_chargeraises(e, x, last) ==
    IF x.exc # "none"
    THEN /\ metrics' = [metrics EXCEPT ![e.source] = x.rec]
         /\ aborted' = TRUE
         /\ apc' = "finish"
         /\ UNCHANGED <<charges, idx>>
    ELSE \E ok \in BOOLEAN :
           /\ charges' = IF NonEmpty(x.rec) THEN Charge("market-analyzed", ok) ELSE charges
           /\ IF NonEmpty(x.rec) /\ ~ok
              THEN /\ metrics' = [metrics EXCEPT ![e.source] = x.rec]
                   /\ aborted' = TRUE
                   /\ apc' = "finish"
                   /\ UNCHANGED idx
              ELSE /\ metrics' = [metrics EXCEPT ![e.source] =
                                    [x.rec EXCEPT !.source_date = <<e.loadedTime>>]]
                   /\ idx' = idx + 1
                   /\ apc' = IF last THEN "finish" ELSE "loop"
                   /\ UNCHANGED aborted

\* lines 52-60 for entry e, x the outcome of the three updates
Processed(e, x, last) ==
    IF x.exc # "none"
    THEN \* the except clause of line 62 ends the loop
         /\ metrics' = [metrics EXCEPT ![e.source] = x.rec]
         /\ aborted' = TRUE
         /\ apc' = "finish"
         /\ UNCHANGED <<charges, idx>>
    ELSE /\ IF NonEmpty(x.rec)
            THEN \E ok \in BOOLEAN : charges' = Charge("market-analyzed", ok)
            ELSE UNCHANGED charges
         /\ metrics' = [metrics EXCEPT ![e.source] =
                          [x.rec EXCEPT !.source_date = <<e.loadedTime>>]]
         /\ idx' = idx + 1
         /\ apc' = IF last THEN "finish" ELSE "loop"
         /\ UNCHANGED aborted

\* the iteration with an empty text treated as a failure of the loop
Iteration_emptyaborts(e, last) ==
    IF e.text = <<>> \/ e.source \notin DOMAIN metrics
    THEN /\ aborted' = TRUE
         /\ apc' = "finish"
         /\ UNCHANGED <<metrics, charges, idx>>
    ELSE Processed(e, ExtractInto(metrics[e.source], Lower(e.text),
                                  MaxExtractPrice(location)), last)

\* lines 43-60: one iteration of the loop over market_data.items()
Iteration(e, last) ==
    IF e.text = <<>>
    THEN \* if not text: continue
         /\ idx' = idx + 1
         /\ apc' = IF last THEN "finish" ELSE "loop"
         /\ UNCHANGED <<metrics, charges, aborted>>
    ELSE IF e.source \notin DOMAIN metrics
    THEN \* metrics[source] raises KeyError: the except clause ends the loop
         /\ aborted' = TRUE
         /\ apc' = "finish"
         /\ UNCHANGED <<metrics, charges, idx>>
    ELSE Processed(e, ExtractInto(metrics[e.source], Lower(e.text),
                                  MaxExtractPrice(location)), last)

AnalyzeSource ==
    /\ apc = "loop"
    /\ Iteration(market_data[idx], idx = Len(market_data))
    /\ UNCHANGED <<location, market_data, report, averages, extractVars, otherVars>>

\* canonicalUrl or loadedUrl
SourceUrl(e) == IF e.canonicalUrl # "" THEN e.canonicalUrl ELSE e.loadedUrl

\* the return without the "_meta" entry
AnalyzeFinish_nometa ==
    /\ apc = "finish"
    /\ report' = [metrics     |-> metrics,
                  source_urls |-> [s \in {market_data[i].source : i \in 1..Len(market_data)} |->
                                     SourceUrl(CHOOSE e \in {market_data[i] : i \in 1..Len(market_data)} :
                                                 e.source = s)]]
    /\ apc' = "returned"
    /\ UNCHANGED <<location, market_data, idx, metrics, charges, aborted, averages, extractVars, otherVars>>

\* lines 65-76: the "_meta" entry, the source URLs, the return
AnalyzeFinish ==
    /\ apc = "finish"
    /\ metrics' = ("_meta" :> [min_valid_price |-> min_valid_price,
                               max_valid_price |-> MaxValidPrice(location),
                               is_high_cost    |-> IsHighCost(location)]) @@ metrics
    /\ report' = [metrics     |-> metrics',
                  source_urls |-> [s \in {market_data[i].source : i \in 1..Len(market_data)} |->
                                     SourceUrl(CHOOSE e \in {market_data[i] : i \in 1..Len(market_data)} :
                                                 e.source = s)]]
    /\ apc' = "returned"
    /\ UNCHANGED <<location, market_data, idx, charges, aborted, averages, extractVars, otherVars>>

-----------------------------------------------------------------------------
(* NewsletterAgent: _format_source_data and _calculate_averages *)

\* dict iteration order of the report's metrics: insertion order
MetricsOrder == <<"zillow", "redfin", "realtor", "rapid", "_meta">>
KeysInOrder(m) == SelectSeq(MetricsOrder, LAMBDA s : s \in DOMAIN m)

\* _format_source_data: the sources rendered, those whose dict is non-empty
FormatSourceData(m) ==
    SelectSeq(<<"zillow", "redfin", "realtor", "rapid">>,
              LAMBDA s : s \in DOMAIN m /\ NonEmpty(m[s]))

RECURSIVE SumSeq(_)
SumSeq(q) == IF q = <<>> THEN 0 ELSE Head(q) + SumSeq(Tail(q))

\* a price within the aggregation bounds as a number of tenths
PriceTenths(p) == p.t * p.mult

\* "if value": a number is truthy unless it is zero
Truthy(name, v) == IF name = "median_price" THEN v.t # 0 ELSE v # 0

price_change_limit == 20

Filtered_none(name, v, minv, maxv) == FALSE

\* the two "continue" filters of calculate_average
Filtered(name, v, minv, maxv) ==
    \/ name = "median_price" /\ ~PriceWithin(v, minv, maxv)
    \/ name = "price_change" /\ Abs(v) > 10 * price_change_limit

\* calculate_average's loop: the list values
RECURSIVE CollectValues(_, _, _, _, _)
CollectValues(m, keys, name, minv, maxv) ==
    IF keys = <<>> THEN <<>>
    ELSE LET source == Head(keys)
             rest   == CollectValues(m, Tail(keys), name, minv, maxv)
         IN  IF source = "_meta" THEN rest
             ELSE LET value == m[source][name]
                  IN  IF value # <<>> /\ Truthy(name, value[1])
                         /\ ~Filtered(name, value[1], minv, maxv)
                      THEN <<IF name = "median_price" THEN PriceTenths(value[1])
                             ELSE value[1]>> \o rest
                      ELSE rest

\* the average without its "if values" guard: the division is done on an
\* empty list too
calculate_average_unguarded(m, name, minv, maxv) ==
    LET values == CollectValues(m, KeysInOrder(m), name, minv, maxv)
    IN  [values |-> values,
         mean   |-> <<[sum |-> SumSeq(values), n |-> Len(values)]>>]

\* sum(values) / len(values) if values else None; the mean is kept as the
\* pair sum, n (<<>> is None)
calculate_average(m, name, minv, maxv) ==
    LET values == CollectValues(m, KeysInOrder(m), name, minv, maxv)
    IN  [values |-> values,
         mean   |-> IF values = <<>> THEN <<>>
                    ELSE <<[sum |-> SumSeq(values), n |-> Len(values)]>>]

calculate_averages(m, minv, maxv) ==
    [avg_price        |-> calculate_average(m, "median_price", minv, maxv),
     avg_price_change |-> calculate_average(m, "price_change", minv, maxv),
     avg_dom          |-> calculate_average(m, "days_on_market", minv, maxv)]

default_min_valid_price == 100000
default_max_valid_price == 1000000

\* the averages computed with the default bounds, "_meta" not read
CalculateAverages_defaults ==
    /\ apc = "returned"
    /\ averages' = calculate_averages(report.metrics, default_min_valid_price,
                                      default_max_valid_price)
    /\ apc' = "averaged"
    /\ UNCHANGED <<location, market_data, idx, metrics, report, charges, aborted, extractVars, otherVars>>

\* generate_newsletter lines 31-39: the bounds read from "_meta", the averages
CalculateAverages ==
    /\ apc = "returned"
    /\ LET m    == report.metrics
           minv == IF "_meta" \in DOMAIN m THEN m["_meta"].min_valid_price
                   ELSE default_min_valid_price
           maxv == IF "_meta" \in DOMAIN m THEN m["_meta"].max_valid_price
                   ELSE default_max_valid_price
       IN  averages' = calculate_averages(m, minv, maxv)
    /\ apc' = "averaged"
    /\ UNCHANGED <<location, market_data, idx, metrics, report, charges, aborted, extractVars, otherVars>>

-----------------------------------------------------------------------------
(* The runs of analyze_market_data explored *)

MaxSources == 2   \* most entries of market_data

n1500000 == <<"1", ",", "5", "0", "0", ",", "0", "0", "0">>
n9000000 == <<"9", ",", "0", "0", "0", ",", "0", "0", "0">>
n500000  == <<"5", "0", "0", ",", "0", "0", "0">>
n0       == <<"0">>

LocMiami  == <<"M", "i", "a", "m", "i", ",", " ", "F", "L">>
LocTopeka == <<"T", "o", "p", "e", "k", "a", ",", " ", "K", "S">>
Locations == {LocMiami, LocTopeka}

DocTexts ==
    {<<>>,
     <<Word("median")>>,
     <<Word("median price"), Money(n500000, ""), Word("down"), Pct("", n3_2),
       Word("since last year")>>,
     <<Word("median price"), Money(n300000, ""), Word("sold in"), Num(n45), Word("days")>>,
     <<Word("median price"), Money(n1500000, ""), Word("up"), Pct("", n35),
       Word("since last year")>>,
     <<Word("median price"), Money(n9000000, "")>>,
     <<Num(n28), Word("days on market")>>,
     <<Word("up"), Pct("", n0), Word("since last year"), Num(n0), Word("days on market")>>}

\* two of the identifiers analyze_market_data prepares for, and one that
\* SearchAgent produces and analyze_market_data does not prepare for
Sources == {"zillow", "redfin", "rocket"}

Entry(source, text) ==
    [source |-> source, text |-> text, loadedTime |-> "2025-03-01",
     canonicalUrl |-> IF source = "redfin" THEN "" ELSE "https://canonical",
     loadedUrl |-> "https://loaded"]

\* market_data: up to MaxSources entries with distinct source identifiers
MarketDataInputs ==
    UNION {{[i \in 1..k |-> Entry(ss[i], ts[i])] :
              ss \in {q \in [1..k -> Sources] : \A i, j \in 1..k : i # j => q[i] # q[j]},
              ts \in [1..k -> DocTexts]} : k \in 0..MaxSources}

ExtractIdle ==
    /\ agent = "analysis"
    /\ raw = <<>>
    /\ pc = "idle"
    /\ max_price = Analysis_max_price
    /\ price_out = NotRun
    /\ change_out = NotRun
    /\ market_out = NoMarket
    /\ extracted = <<>>

InitAnalyze ==
    /\ ExtractIdle
    /\ OtherIdle
    /\ location \in Locations
    /\ market_data \in MarketDataInputs
    /\ apc = "call"
    /\ idx = 0
    /\ metrics = <<>>
    /\ report = <<>>
    /\ charges = <<>>
    /\ aborted = FALSE
    /\ averages = <<>>

NextAnalyze ==
    \/ AnalyzeStart
    \/ AnalyzeSource
    \/ AnalyzeFinish
    \/ CalculateAverages

SpecAnalyze == InitAnalyze /\ [][NextAnalyze]_vars

-----------------------------------------------------------------------------
(* The report and the averages *)

Returned == apc \in {"returned", "averaged"}

\* the record the report holds for a source
RecordOf(s) == report.metrics[s]

HasMetric(rec) == \E key \in MetricKeys : rec[key] # <<>>

InputSources == {market_data[i].source : i \in 1..Len(market_data)}

Rendered(s) == \E i \in 1..Len(FormatSourceData(report.metrics)) :
                  FormatSourceData(report.metrics)[i] = s

\* C9: once analyze_market_data has returned, a source of the input whose
\* record holds none of the five metric fields is not a key of the report's
\* per-source mapping and is not rendered by _format_source_data; source_date
\* alone keeps no source.
C9_NoMetricNoSource ==
    Returned =>
        \A s \in InputSources :
            /\ s \in DOMAIN report.metrics => HasMetric(RecordOf(s))
            /\ Rendered(s) => HasMetric(RecordOf(s))

MetaOf(m) == m["_meta"]

InTenths(v) == 10 * v

\* C10: every median_price that contributes to avg_price lies within
\* [min_valid_price, max_valid_price] of the report, every price_change that
\* contributes to avg_price_change has absolute value at most 20, and so each
\* of the two means lies within the same limits.
C10_OutliersExcludedFromAverages ==
    apc = "averaged" =>
        LET lo == InTenths(MetaOf(report.metrics).min_valid_price)
            hi == InTenths(MetaOf(report.metrics).max_valid_price)
            ap == averages.avg_price
            ac == averages.avg_price_change
        IN  /\ \A i \in 1..Len(ap.values) : lo <= ap.values[i] /\ ap.values[i] <= hi
            /\ \A i \in 1..Len(ac.values) : Abs(ac.values[i]) <= InTenths(price_change_limit)
            /\ ap.mean # <<>> =>
                 /\ ap.mean[1].n * lo <= ap.mean[1].sum
                 /\ ap.mean[1].sum <= ap.mean[1].n * hi
            /\ ac.mean # <<>> =>
                 Abs(ac.mean[1].sum) <= ac.mean[1].n * InTenths(price_change_limit)

\* two sources hold median_price 500000 and 1500000 with max_valid_price
\* 1000000, one of them a price_change of 35: avg_price is 500000 and the
\* price_change of 35 is in no average
C10_Witness ==
    /\ apc = "averaged"
    /\ MetaOf(report.metrics).max_valid_price = max_valid_price_normal
    /\ \E s, t \in DOMAIN report.metrics \ {"_meta"} :
          /\ RecordOf(s).median_price = <<Price(5000000, 1)>>
          /\ RecordOf(t).median_price = <<Price(15000000, 1)>>
          /\ RecordOf(t).price_change = <<350>>
    /\ averages.avg_price.mean = <<[sum |-> InTenths(500000), n |-> 1]>>
    /\ averages.avg_price_change.values = <<-32>>

-----------------------------------------------------------------------------
(* The averages as the sum and the count of what the sources hold *)

AggregateOf(name) ==
    CASE name = "median_price"   -> averages.avg_price
      [] name = "price_change"   -> averages.avg_price_change
      [] name = "days_on_market" -> averages.avg_dom

\* the sources of the report, "_meta" aside
ReportSources == DOMAIN report.metrics \ {"_meta"}

\* the value passes the aggregation filter of its category, bounds included
Passes(name, v) ==
    CASE name = "median_price" ->
           PriceWithin(v, MetaOf(report.metrics).min_valid_price,
                          MetaOf(report.metrics).max_valid_price)
      [] name = "price_change" -> Abs(v) <= InTenths(price_change_limit)
      [] OTHER -> TRUE

\* the sources whose populated value of the category passes the filter
Contributors(name) ==
    {s \in ReportSources : RecordOf(s)[name] # <<>> /\ Passes(name, RecordOf(s)[name][1])}

ValueOf(name, s) ==
    IF name = "median_price" THEN PriceTenths(RecordOf(s)[name][1]) ELSE RecordOf(s)[name][1]

RECURSIVE SumOver(_, _)
SumOver(name, S) ==
    IF S = {} THEN 0
    ELSE LET s == CHOOSE x \in S : TRUE
         IN  ValueOf(name, s) + SumOver(name, S \ {s})

AggregateNames == {"median_price", "price_change", "days_on_market"}

\* C11: each aggregate is the arithmetic mean of exactly the populated values
\* that pass the category's filter: a populated 0 and a value on a bound are
\* included, and days_on_market is not filtered.
C11_MeanOfExactlyPassingValues ==
    apc = "averaged" =>
        \A name \in AggregateNames :
            Contributors(name) # {} =>
                /\ AggregateOf(name).mean # <<>>
                /\ AggregateOf(name).mean[1].n = Cardinality(Contributors(name))
                /\ AggregateOf(name).mean[1].sum = SumOver(name, Contributors(name))

\* C12: in each category, when no populated value passes the aggregation
\* filter the aggregate is None, not 0, and a mean that is computed divides
\* by at least one value; the three categories are decided independently.
C12_NoValuesGivesNone ==
    apc = "averaged" =>
        \A name \in AggregateNames :
            /\ Contributors(name) = {} => AggregateOf(name).mean = <<>>
            /\ AggregateOf(name).mean # <<>> => AggregateOf(name).mean[1].n >= 1

\* a price is populated and filtered out, so avg_price is None, while the
\* days on market of the same run are averaged
C12_Witness ==
    /\ apc = "averaged"
    /\ \E s \in ReportSources : RecordOf(s).median_price # <<>>
    /\ Contributors("median_price") = {}
    /\ averages.avg_price.mean = <<>>
    /\ averages.avg_dom.mean # <<>>

-----------------------------------------------------------------------------
(* Records handed downstream *)

\* C13: a metric that was not found or failed validation is absent from the
\* record handed downstream: the record extract_data appends holds no number
\* for a median_price, price_change, days_on_market or inventory that the
\* extractor did not store.
C13_MissingMetricStaysAbsent ==
    (agent = "extraction" /\ pc = "appended") =>
        LET rec == extracted[Len(extracted)]
        IN  /\ price_out.val = <<>> => rec.median_price = <<>>
            /\ change_out.val = <<>> => rec.price_change = <<>>
            /\ market_out.dom.val = <<>> => rec.days_on_market = <<>>
            /\ market_out.inv.val = <<>> => rec.inventory = <<>>

-----------------------------------------------------------------------------
(* The validation bounds *)

MarketNames == {high_cost_markets[k] : k \in 1..Len(high_cost_markets)}

\* loc holds the name at offset i, letter case set aside
NamedAt(loc, name, i) ==
    /\ i + Len(name) <= Len(loc)
    /\ \A j \in 1..Len(name) : LowerChar(loc[i + j]) = LowerChar(name[j])

NamesMarket(loc) == \E name \in MarketNames : \E i \in 0..Len(loc) : NamedAt(loc, name, i)

\* C14: for the location of every call that has returned, the extraction
\* bounds are strictly wider than the aggregation bounds (min_price below
\* min_valid_price, max_valid_price below max_price), and a location that
\* contains a market name, whatever its letter case, has is_high_cost true and
\* both maxima strictly larger than those of a location that contains none.
C14_ExtractionBoundsWider ==
    Returned =>
        LET meta == MetaOf(report.metrics)
        IN  /\ Analysis_min_price < meta.min_valid_price
            /\ meta.max_valid_price < MaxExtractPrice(location)
            /\ NamesMarket(location) =>
                 /\ meta.is_high_cost
                 /\ \A other \in Locations :
                      ~NamesMarket(other) =>
                          /\ MaxExtractPrice(other) < MaxExtractPrice(location)
                          /\ MaxValidPrice(other) < meta.max_valid_price

C14_Witness ==
    /\ Returned
    /\ location = LocMiami
    /\ NamesMarket(location) /\ ~NamesMarket(LocTopeka)
    /\ MetaOf(report.metrics).is_high_cost
    /\ MetaOf(report.metrics).max_valid_price = max_valid_price_high
    /\ MaxValidPrice(LocTopeka) = max_valid_price_normal

-----------------------------------------------------------------------------
(* Independence of the sources *)

\* the record analyze_market_data produces for entry e when e is the only
\* entry of market_data
Alone(e) ==
    IF e.text = <<>> THEN EmptyRecord
    ELSE LET x == ExtractInto(EmptyRecord, Lower(e.text), MaxExtractPrice(location))
         IN  IF x.exc # "none" THEN x.rec
             ELSE [x.rec EXCEPT !.source_date = <<e.loadedTime>>]

\* C15: once analyze_market_data has returned, the record of every source of
\* the input that the report has a slot for is the record its own document
\* produces alone, whatever the other entries of market_data are and wherever
\* they stand: every processable source is processed.
C15_RecordDependsOnOwnDocument ==
    Returned =>
        \A i \in 1..Len(market_data) :
            market_data[i].source \in DOMAIN InitialMetrics =>
                RecordOf(market_data[i].source) = Alone(market_data[i])

-----------------------------------------------------------------------------
(* Documents without text *)

\* C16: the iteration over an entry whose text is empty leaves every record
\* as it is (the entry's own record stays empty), does not abort the loop and
\* passes on to the next entry, or to the end of the method after the last
\* one, so the later sources are extracted and the report is returned.
C16_EmptyTextIsSkipped ==
    [][(apc = "loop" /\ market_data[idx].text = <<>>) =>
          /\ metrics' = metrics
          /\ market_data[idx].source \in DOMAIN metrics =>
                metrics'[market_data[idx].source] = EmptyRecord
          /\ aborted' = aborted
          /\ idx' = idx + 1
          /\ apc' = IF idx = Len(market_data) THEN "finish" ELSE "loop"]_vars

C16_Witness ==
    /\ Returned /\ ~aborted
    /\ \E i, j \in 1..Len(market_data) :
         /\ i < j
         /\ {market_data[i].source, market_data[j].source} \subseteq DOMAIN InitialMetrics
         /\ market_data[i].text = <<>>
         /\ RecordOf(market_data[i].source) = EmptyRecord
         /\ HasMetric(RecordOf(market_data[j].source))

-----------------------------------------------------------------------------
(* A run without data *)

NoMetricFound == \A s \in DOMAIN report.metrics \ {"_meta"} : ~HasMetric(report.metrics[s])

\* the report's shape: the per-source mapping with its four slots, the bounds
\* under "_meta", a URL for every source of the input
WellFormed ==
    /\ DOMAIN report = {"metrics", "source_urls"}
    /\ DOMAIN report.metrics = DOMAIN InitialMetrics \cup {"_meta"}
    /\ DOMAIN report.metrics["_meta"] = {"min_valid_price", "max_valid_price", "is_high_cost"}
    /\ report.metrics["_meta"].min_valid_price = min_valid_price
    /\ report.metrics["_meta"].max_valid_price \in {max_valid_price_normal, max_valid_price_high}
    /\ report.metrics["_meta"].is_high_cost \in BOOLEAN
    /\ DOMAIN report.source_urls = InputSources

\* C17: when no source has yielded a metric (an empty market_data and
\* documents without text included), the report that analyze_market_data
\* returns holds the per-source mapping, the bounds and the source URLs, and
\* _calculate_averages returns None for each of the three aggregates.
C17_NoDataStillReports ==
    (Returned /\ NoMetricFound) =>
        /\ WellFormed
        /\ apc = "averaged" =>
             /\ averages.avg_price.mean = <<>>
             /\ averages.avg_price_change.mean = <<>>
             /\ averages.avg_dom.mean = <<>>

C17_Witness ==
    /\ apc = "averaged"
    /\ Len(market_data) >= 1
    /\ \A i \in 1..Len(market_data) : market_data[i].text = <<>>
    /\ NoMetricFound /\ WellFormed
    /\ averages.avg_price.mean = <<>>
    /\ averages.avg_price_change.mean = <<>>
    /\ averages.avg_dom.mean = <<>>

-----------------------------------------------------------------------------
(* The report as a function of the input *)

\* the metrics dict after the loop has run from entry i on, as market_data and
\* location alone determine it
RECURSIVE MetricsAfter(_, _)
MetricsAfter(m, i) ==
    IF i > Len(market_data) THEN m
    ELSE IF market_data[i].text = <<>> THEN MetricsAfter(m, i + 1)
    ELSE IF market_data[i].source \notin DOMAIN m THEN m
    ELSE LET e == market_data[i]
             x == ExtractInto(m[e.source], Lower(e.text), MaxExtractPrice(location))
         IN  IF x.exc # "none" THEN [m EXCEPT ![e.source] = x.rec]
             ELSE MetricsAfter([m EXCEPT ![e.source] =
                                  [x.rec EXCEPT !.source_date = <<e.loadedTime>>]], i + 1)

ExpectedReport ==
    [metrics     |-> ("_meta" :> [min_valid_price |-> min_valid_price,
                                  max_valid_price |-> MaxValidPrice(location),
                                  is_high_cost    |-> IsHighCost(location)])
                     @@ MetricsAfter(InitialMetrics, 1),
     source_urls |-> [s \in InputSources |->
                        SourceUrl(CHOOSE e \in {market_data[i] : i \in 1..Len(market_data)} :
                                    e.source = s)]]

ChargeFailed(event) == \E i \in 1..Len(charges) : charges[i].event = event /\ ~charges[i].ok

\* C18: the report analyze_market_data returns is the one that market_data
\* and location determine, whether each Actor.charge call of the run succeeded
\* or raised: the records, the bounds and the source URLs are the same.
C18_ReportIgnoresCharges ==
    Returned => report = ExpectedReport

C18_Witness ==
    /\ Returned
    /\ ChargeFailed("market-analyzed")
    /\ \E s \in ReportSources : HasMetric(RecordOf(s)) /\ RecordOf(s).source_date # <<>>
    /\ report = ExpectedReport

-----------------------------------------------------------------------------
(* The bounds the aggregator applies *)

\* the upper aggregation bound of a location
UpperBoundFor(loc) == IF NamesMarket(loc) THEN max_valid_price_high ELSE max_valid_price_normal

\* the sources whose price lies within the bounds of the run's location
PricedWithin(loc) ==
    {s \in ReportSources :
        /\ RecordOf(s).median_price # <<>>
        /\ PriceWithin(RecordOf(s).median_price[1], min_valid_price, UpperBoundFor(loc))}

\* C19: the report carries under "_meta" the bounds of the run's location
\* (max_valid_price 5000000 for a high-cost market, 1000000 otherwise), and
\* avg_price is the mean of exactly the prices of the sources that lie within
\* those bounds: "_meta" itself contributes no value.
C19_AggregatorUsesReportBounds ==
    apc = "averaged" =>
        /\ MetaOf(report.metrics).min_valid_price = min_valid_price
        /\ MetaOf(report.metrics).max_valid_price = UpperBoundFor(location)
        /\ Len(averages.avg_price.values) = Cardinality(PricedWithin(location))
        /\ PricedWithin(location) = {} => averages.avg_price.mean = <<>>
        /\ PricedWithin(location) # {} =>
             /\ averages.avg_price.mean # <<>>
             /\ averages.avg_price.mean[1].n = Cardinality(PricedWithin(location))
             /\ averages.avg_price.mean[1].sum = SumOver("median_price", PricedWithin(location))

C19_Witness ==
    /\ apc = "averaged"
    /\ location = LocMiami
    /\ \E s, t \in ReportSources :
         /\ RecordOf(s).median_price # <<>> /\ RecordOf(t).median_price # <<>>
         /\ PriceWithin(RecordOf(s).median_price[1], max_valid_price_normal + 1, max_valid_price_high)
         /\ ~PriceWithin(RecordOf(t).median_price[1], min_valid_price, max_valid_price_high)
         /\ PricedWithin(location) = {s}
    /\ averages.avg_price.mean # <<>>
    /\ averages.avg_price.mean[1].n = 1

-----------------------------------------------------------------------------
(* The worked example *)

\* C20: for the text "The median home value is $450,000, down 3.2% since last
\* year. Homes are selling in 28 days on the market. There are 1,200 homes for
\* sale." each of the two extractor variants stores median_price 450000,
\* price_change -3.2, days_on_market 28 and inventory 1200, leaves
\* price_per_sqft out, and raises nothing.
C20_ExampleValues ==
    raw = ExampleText =>
        /\ pc # "raised"
        /\ pc # "price" =>
             /\ price_out.val # <<>>
             /\ price_out.val[1].t * price_out.val[1].mult = 10 * 450000
        /\ pc \notin {"price", "change"} => change_out.val = <<0 - 32>>
        /\ pc \notin {"price", "change", "market"} =>
             /\ market_out.dom.val = <<28>>
             /\ market_out.inv.val = <<1200>>
             /\ market_out.sqft.val = <<>>

C20_Witness ==
    /\ raw = ExampleText
    /\ agent = "extraction" /\ pc = "done"
    /\ price_out.val = <<Price(10 * 450000, 1)>>
    /\ change_out.val = <<0 - 32>>
    /\ market_out.dom.val = <<28>>
    /\ market_out.inv.val = <<1200>>
    /\ market_out.sqft.val = <<>>

-----------------------------------------------------------------------------
(* Extraction bounds against aggregation bounds *)

\* the upper aggregation bound of the run: AnalysisAgent receives the upper
\* extraction bound of the location's class, ExtractionAgent is handed no
\* location and serves the high-cost markets too
AggregationUpper ==
    IF agent = "analysis" /\ max_price = Analysis_max_price
    THEN max_valid_price_normal ELSE max_valid_price_high

Evaluated(r, i) == \E k \in 1..Len(r.tried) : r.tried[k] = i

\* C21: a price that a pattern read from the document and that lies within the
\* aggregation bounds [min_valid_price, max_valid_price] of the location is
\* not discarded by the extractor's own price bounds: once the extractor has
\* returned, a median_price is stored.
C21_ExtractionAtLeastAsPermissive ==
    PriceRan =>
        \A i \in 1..PriceCount :
            (/\ Evaluated(price_out, i)
             /\ PriceCand(i).matched /\ PriceCand(i).parsed
             /\ PriceWithin(PriceCand(i).v, min_valid_price, AggregationUpper))
            => price_out.val # <<>>

-----------------------------------------------------------------------------
(* NewsletterWriter._validate_source_data and _format_market_data *)

\* a value held by a dict: None or a number
PyNone    == [null |-> TRUE,  v |-> 0]
Number(v) == [null |-> FALSE, v |-> v]

\* bool(value)
ValueTruthy(val) == ~val.null /\ val.v # 0

CoreMetrics == {"median_price", "price_change", "days_on_market", "price_per_sqft"}
WriterMetrics == CoreMetrics \cup {"market_type", "inventory", "sales_volume"}

\* the "text" entry of a source's data: absent, a string (the phrases it
\* holds, in order) or a value that is not a string
NoText       == [is |-> "absent", phrases |-> <<>>]
TextOf(ps)   == [is |-> "str",    phrases |-> ps]
NotAString   == [is |-> "other",  phrases |-> <<>>]

\* phrase in text
InText(phrase, text) == \E i \in 1..Len(text.phrases) : text.phrases[i] = phrase

\* a source's data: a dict with its entries (an absent key holds <<>>), or a
\* value that is not a dict
DataDict(mp, pcg, dom, sqft, text) ==
    [kind |-> "dict", median_price |-> mp, price_change |-> pcg, days_on_market |-> dom,
     price_per_sqft |-> sqft, text |-> text]
NotADict(kind) == [DataDict(<<>>, <<>>, <<>>, <<>>, NoText) EXCEPT !.kind = kind]

\* not data or not isinstance(data, dict)
Unusable(data) ==
    \/ data.kind # "dict"
    \/ /\ \A key \in CoreMetrics : data[key] = <<>>
       /\ data.text.is = "absent"

\* _extract_inventory, _extract_sales: both return None
extract_inventory(text) == PyNone
extract_sales(text)     == PyNone

\* lines 16-23: 'key' in data and data['key']
CoreValue(data, key) ==
    IF data[key] # <<>> /\ ValueTruthy(data[key][1]) THEN data[key] ELSE <<>>

\* lines 26-33: the market type named first in the if/elif chain
MarketType(text) ==
    IF InText("Neutral Market", text) THEN <<"Neutral Market">>
    ELSE IF InText("Seller's Market", text) THEN <<"Seller's Market">>
    ELSE IF InText("Buyer's Market", text) THEN <<"Buyer's Market">>
    ELSE <<>>

\* lines 14-39: the dict metrics built for one source
SourceMetrics(source, data) ==
    LET rocket == source = "rocket" /\ data.text.is = "str"
    IN  [median_price   |-> CoreValue(data, "median_price"),
         price_change   |-> CoreValue(data, "price_change"),
         days_on_market |-> CoreValue(data, "days_on_market"),
         price_per_sqft |-> CoreValue(data, "price_per_sqft"),
         market_type    |-> IF rocket THEN MarketType(data.text) ELSE <<>>,
         inventory      |-> IF rocket /\ InText("homes for sale", data.text)
                            THEN <<extract_inventory(data.text)>> ELSE <<>>,
         sales_volume   |-> IF rocket /\ InText("homes sold", data.text)
                            THEN <<extract_sales(data.text)>> ELSE <<>>]

\* bool(metrics): the dict has a key
HasKey(m) == \E key \in WriterMetrics : m[key] # <<>>

\* _validate_source_data: the loop over market_data.items()
RECURSIVE validate_source_data(_)
validate_source_data(entries) ==
    IF entries = <<>> THEN <<>>
    ELSE LET e == Head(entries)
             rest == validate_source_data(Tail(entries))
         IN  IF Unusable(e.data) THEN rest
             ELSE IF HasKey(SourceMetrics(e.source, e.data))
             THEN <<[source |-> e.source, metrics |-> SourceMetrics(e.source, e.data)]>> \o rest
             ELSE rest

\* the values of one metric over the retained sources
RECURSIVE MetricValues(_, _)
MetricValues(vs, key) ==
    IF vs = <<>> THEN <<>>
    ELSE (IF Head(vs).metrics[key] # <<>> THEN <<Head(vs).metrics[key][1]>> ELSE <<>>)
         \o MetricValues(Tail(vs), key)

\* sum(values) / len(values) if values else None; sum() raises TypeError on None
WriterAverage(values) ==
    IF values = <<>> THEN [exc |-> "none", mean |-> <<>>]
    ELSE IF \E i \in 1..Len(values) : values[i].null THEN [exc |-> "TypeError", mean |-> <<>>]
    ELSE [exc |-> "none",
          mean |-> <<[sum |-> SumSeq([i \in 1..Len(values) |-> values[i].v]),
                      n |-> Len(values)]>>]

RocketData(vs) == SelectSeq(vs, LAMBDA e : e.source = "rocket")

\* f"{rocket_data['inventory']:,}" raises TypeError when the value is None
InventoryInsight(vs) ==
    IF RocketData(vs) # <<>> /\ RocketData(vs)[1].metrics.inventory # <<>>
       /\ RocketData(vs)[1].metrics.inventory[1].null
    THEN "TypeError" ELSE "none"

NoResult(kind) == [kind |-> kind, averages |-> <<>>, sources |-> <<>>]

\* _format_market_data on the retained sources vs
format_market_data(vs, price, change, dom) ==
    IF vs = <<>> THEN NoResult("Error: No valid market data available")
    ELSE IF price.exc # "none" \/ change.exc # "none" \/ dom.exc # "none"
            \/ InventoryInsight(vs) # "none"
    THEN NoResult("TypeError")
    ELSE [kind |-> "dict",
          averages |-> <<price.mean, change.mean, dom.mean>>,
          sources |-> [i \in 1..Len(vs) |-> vs[i].source]]

WValidate ==
    /\ wpc = "call"
    /\ valid_sources' = validate_source_data(wdata)
    /\ wpc' = "validated"
    /\ UNCHANGED <<wdata, formatted, extractVars, analyzeVars, filterVars, mainVars>>

WFormat ==
    /\ wpc = "validated"
    /\ formatted' = format_market_data(valid_sources,
                                       WriterAverage(MetricValues(valid_sources, "median_price")),
                                       WriterAverage(MetricValues(valid_sources, "price_change")),
                                       WriterAverage(MetricValues(valid_sources, "days_on_market")))
    /\ wpc' = IF formatted'.kind = "TypeError" THEN "raised" ELSE "formatted"
    /\ UNCHANGED <<wdata, valid_sources, extractVars, analyzeVars, filterVars, mainVars>>

WriterSources == {"zillow", "rocket"}

WriterTexts ==
    {NoText, NotAString, TextOf(<<>>), TextOf(<<"homes for sale">>),
     TextOf(<<"Seller's Market">>), TextOf(<<"homes sold">>),
     TextOf(<<"Neutral Market", "Buyer's Market">>),
     TextOf(<<"Buyer's Market", "homes for sale">>)}

WriterData ==
    {DataDict(mp, pcg, <<>>, <<>>, text) :
        mp \in {<<>>, <<PyNone>>, <<Number(0)>>, <<Number(450000)>>},
        pcg \in {<<>>, <<Number(0 - 32)>>},
        text \in WriterTexts \ {TextOf(<<>>), TextOf(<<"homes sold">>)}}
    \cup {DataDict(<<Number(300000)>>, <<>>, <<Number(28)>>, <<>>, TextOf(<<"homes sold">>)),
          DataDict(<<>>, <<>>, <<>>, <<>>, TextOf(<<>>)),
          NotADict("None"), NotADict("list")}

WriterEntry(source, data) == [source |-> source, data |-> data]

\* market_data: entries with distinct sources, in the mapping's order
WriterInputs ==
    {<<>>}
    \cup {<<WriterEntry(s, d)>> : s \in WriterSources, d \in WriterData}
    \cup {<<WriterEntry("zillow", d1), WriterEntry("rocket", d2)>> :
            d1 \in WriterData, d2 \in WriterData}
    \cup {<<WriterEntry("rocket", d1), WriterEntry("zillow", d2)>> :
            d1 \in WriterData, d2 \in WriterData}

InitWriter ==
    /\ ExtractIdle
    /\ AnalyzeIdle
    /\ FilterIdle
    /\ MainIdle
    /\ wdata \in WriterInputs
    /\ wpc = "call"
    /\ valid_sources = <<>>
    /\ formatted = <<>>

NextWriter ==
    \/ WValidate
    \/ WFormat

SpecWriter == InitWriter /\ [][NextWriter]_vars

\* the dict retained for a source holds a value that is not None
HasActualValue(m) ==
    \E key \in WriterMetrics :
        m[key] # <<>> /\ (key = "market_type" \/ ~m[key][1].null)

\* the data of an input entry holds a core metric with a value that is not None
HoldsCoreValue(data) ==
    data.kind = "dict" /\ \E key \in CoreMetrics : data[key] # <<>> /\ ~data[key][1].null

Retained(source) == \E k \in 1..Len(valid_sources) : valid_sources[k].source = source

\* C22: once _validate_source_data has returned, every source it retains has
\* a metric whose value is not None, a source other than rocket whose data
\* holds no such metric is not retained, and _format_market_data does not
\* raise while rendering the retained sources.
C22_RetainedSourcesHaveData ==
    wpc \in {"validated", "formatted", "raised"} =>
        /\ \A k \in 1..Len(valid_sources) : HasActualValue(valid_sources[k].metrics)
        /\ \A i \in 1..Len(wdata) :
             (wdata[i].source # "rocket" /\ ~HoldsCoreValue(wdata[i].data))
                => ~Retained(wdata[i].source)
        /\ wpc # "raised"

-----------------------------------------------------------------------------
(* SearchAgent.filter_urls *)

\* A URL is its host and its path segments, with or without a closing "/".
\* The patterns are searched with re.IGNORECASE and are anchored at the end
\* only, so what stands before the domain name is free.

\* str.lower() of the hosts and literal segments used
FoldCase(x) ==
    CASE x = "WWW.ZILLOW.COM" -> "www.zillow.com"
      [] x = "HOME-VALUES" -> "home-values"
      [] OTHER -> x

\* the host ends with the domain name
HostEnds(host, domain) ==
    \/ domain = "zillow.com"  /\ FoldCase(host) \in {"www.zillow.com", "zillow.com"}
    \/ domain = "redfin.com"  /\ FoldCase(host) \in {"www.redfin.com"}
    \/ domain = "realtor.com" /\ FoldCase(host) \in {"www.realtor.com"}
    \/ domain = "rocket.com"  /\ FoldCase(host) \in {"rocket.com"}

\* the character classes of the patterns, on the segments used
IsDigitsSeg(x)      == x \in {"12700", "11458"}                       \* \d+
IsAlnumDashSeg(x)   == x \in {"12700", "11458", "miami-fl", "Miami", "miami", "FL", "fl",
                              "homes", "city", "overview", "home-values", "HOME-VALUES",
                              "housing-market", "market-reports"}     \* [a-zA-Z0-9-]+
IsLetterDashSeg(x)  == x \in {"miami-fl", "Miami", "miami", "FL", "fl", "homes", "city",
                              "overview", "home-values", "HOME-VALUES", "housing-market",
                              "market-reports"}                       \* [A-Za-z-]+
IsTwoLettersSeg(x)  == x \in {"FL", "fl"}                             \* [A-Z]{2}, [a-z]{2}
IsNameStateSeg(x)   == x \in {"Miami_FL"}                             \* [A-Za-z-]+_[A-Z]{2}

URL_PATTERNS == <<"zillow", "redfin", "realtor", "rocket">>

\* re.search(URL_PATTERNS[source], url, re.IGNORECASE)
UrlMatches(source, url) ==
    LET p == url.path
    IN  CASE source = "zillow" ->
               /\ HostEnds(url.host, "zillow.com") /\ Len(p) = 3
               /\ FoldCase(p[1]) = "home-values" /\ IsDigitsSeg(p[2]) /\ IsAlnumDashSeg(p[3])
          [] source = "redfin" ->
               /\ HostEnds(url.host, "redfin.com") /\ Len(p) = 5
               /\ FoldCase(p[1]) = "city" /\ IsDigitsSeg(p[2]) /\ IsTwoLettersSeg(p[3])
               /\ IsLetterDashSeg(p[4]) /\ FoldCase(p[5]) = "housing-market"
          [] source = "realtor" ->
               /\ HostEnds(url.host, "realtor.com") /\ Len(p) = 3
               /\ FoldCase(p[1]) = "realestateandhomes-search" /\ IsNameStateSeg(p[2])
               /\ FoldCase(p[3]) = "overview"
          [] source = "rocket" ->
               /\ HostEnds(url.host, "rocket.com") /\ Len(p) = 4
               /\ FoldCase(p[1]) = "homes" /\ FoldCase(p[2]) = "market-reports"
               /\ IsTwoLettersSeg(p[3]) /\ IsLetterDashSeg(p[4])

\* the inner loop: the first source, in the dict's order, whose pattern the
\* url matches; "" when none does
FirstSource(url) ==
    LET M == {k \in 1..Len(URL_PATTERNS) : UrlMatches(URL_PATTERNS[k], url)}
    IN  IF M = {} THEN "" ELSE URL_PATTERNS[CHOOSE k \in M : \A j \in M : k <= j]

URLData(url, source) == [url |-> url, source |-> source]

\* the loop body without the source_counts test: every classified url is taken
FilterUrl_all ==
    /\ fpc = "loop" /\ fidx <= Len(furls)
    /\ IF FirstSource(furls[fidx]) # ""
       THEN /\ filtered_urls' = Append(filtered_urls,
                                       URLData(furls[fidx], FirstSource(furls[fidx])))
            /\ source_counts' = [source_counts EXCEPT ![FirstSource(furls[fidx])] = @ + 1]
            /\ \E ok \in BOOLEAN : fpc' = IF ok THEN "loop" ELSE "raised"
       ELSE UNCHANGED <<filtered_urls, source_counts, fpc>>
    /\ fidx' = fidx + 1
    /\ UNCHANGED <<furls, extractVars, analyzeVars, writerVars, mainVars>>

\* lines 159-167 for one url: the first valid URL of its source is appended
\* and charged for; Actor.charge may raise, and nothing in filter_urls catches it
FilterUrl ==
    /\ fpc = "loop" /\ fidx <= Len(furls)
    /\ IF FirstSource(furls[fidx]) # "" /\ source_counts[FirstSource(furls[fidx])] = 0
       THEN /\ filtered_urls' = Append(filtered_urls,
                                       URLData(furls[fidx], FirstSource(furls[fidx])))
            /\ source_counts' = [source_counts EXCEPT ![FirstSource(furls[fidx])] = @ + 1]
            /\ \E ok \in BOOLEAN : fpc' = IF ok THEN "loop" ELSE "raised"
       ELSE UNCHANGED <<filtered_urls, source_counts, fpc>>
    /\ fidx' = fidx + 1
    /\ UNCHANGED <<furls, extractVars, analyzeVars, writerVars, mainVars>>

\* lines 169-174: the list is returned
FilterReturn ==
    /\ fpc = "loop" /\ fidx > Len(furls)
    /\ fpc' = "returned"
    /\ UNCHANGED <<furls, fidx, filtered_urls, source_counts,
                   extractVars, analyzeVars, writerVars, mainVars>>

Url(host, path, slash) == [host |-> host, path |-> path, slash |-> slash]

MaxUrls == 4   \* longest list of urls

Urls ==
    {Url("www.zillow.com", <<"home-values", "12700", "miami-fl">>, TRUE),
     Url("zillow.com", <<"home-values", "12700", "miami">>, FALSE),
     Url("WWW.ZILLOW.COM", <<"HOME-VALUES", "12700", "Miami">>, FALSE),
     Url("www.zillow.com", <<"homes", "miami_rb">>, TRUE),
     Url("www.redfin.com", <<"city", "11458", "FL", "Miami", "housing-market">>, FALSE),
     Url("www.realtor.com", <<"realestateandhomes-search", "Miami_FL", "overview">>, FALSE),
     Url("rocket.com", <<"homes", "market-reports", "fl", "miami">>, FALSE),
     Url("rocket.com", <<"homes", "market-reports", "FL", "miami-fl">>, TRUE)}

InitFilter ==
    /\ ExtractIdle
    /\ AnalyzeIdle
    /\ WriterIdle
    /\ MainIdle
    /\ furls \in UNION {[1..k -> Urls] : k \in 0..MaxUrls}
    /\ fidx = 1
    /\ filtered_urls = <<>>
    /\ source_counts = [k \in {URL_PATTERNS[i] : i \in 1..Len(URL_PATTERNS)} |-> 0]
    /\ fpc = "loop"

NextFilter ==
    \/ FilterUrl
    \/ FilterReturn

SpecFilter == InitFilter /\ [][NextFilter]_vars

MAX_URLS_PER_SOURCE == 1

\* the source a url is classified to: the first pattern of the list it matches
ClassOf(url) ==
    IF \E k \in 1..Len(URL_PATTERNS) : UrlMatches(URL_PATTERNS[k], url)
    THEN URL_PATTERNS[CHOOSE k \in 1..Len(URL_PATTERNS) :
                        /\ UrlMatches(URL_PATTERNS[k], url)
                        /\ \A j \in 1..(k - 1) : ~UrlMatches(URL_PATTERNS[j], url)]
    ELSE ""

\* position in the input of the first url classified to source, 0 when none
FirstOf(source) ==
    LET I == {i \in 1..Len(furls) : ClassOf(furls[i]) = source}
    IN  IF I = {} THEN 0 ELSE CHOOSE i \in I : \A j \in I : i <= j

\* C23: the list filter_urls returns holds each source at most once, holds for
\* every source that some url of the input is classified to exactly the first
\* such url of the input, under that source, holds no url that matches no
\* pattern, and is in the order of the input.
C23_FirstUrlPerSource ==
    fpc = "returned" =>
        /\ \A a, b \in 1..Len(filtered_urls) :
             a # b => filtered_urls[a].source # filtered_urls[b].source
        /\ \A k \in 1..Len(URL_PATTERNS) :
             Cardinality({a \in 1..Len(filtered_urls) :
                            filtered_urls[a].source = URL_PATTERNS[k]}) <= MAX_URLS_PER_SOURCE
        /\ \A a \in 1..Len(filtered_urls) :
             /\ filtered_urls[a].source # ""
             /\ FirstOf(filtered_urls[a].source) # 0
             /\ filtered_urls[a].url = furls[FirstOf(filtered_urls[a].source)]
             /\ ClassOf(filtered_urls[a].url) = filtered_urls[a].source
        /\ \A k \in 1..Len(URL_PATTERNS) :
             FirstOf(URL_PATTERNS[k]) # 0 =>
                \E a \in 1..Len(filtered_urls) : filtered_urls[a].source = URL_PATTERNS[k]
        /\ \A a, b \in 1..Len(filtered_urls) :
             a < b => FirstOf(filtered_urls[a].source) < FirstOf(filtered_urls[b].source)

C23_Witness ==
    /\ fpc = "returned"
    /\ Len(furls) = 4
    /\ ClassOf(furls[1]) = "zillow" /\ ClassOf(furls[2]) = ""
    /\ ClassOf(furls[3]) = "redfin" /\ ClassOf(furls[4]) = "zillow"
    /\ furls[1] # furls[4]
    /\ filtered_urls = <<URLData(furls[1], "zillow"), URLData(furls[3], "redfin")>>

-----------------------------------------------------------------------------
(* the events charged by one call of analyze_market_data *)

\* number of calls of charge_event for the event, failed ones included
Charged(event) == Cardinality({i \in 1..Len(charges) : charges[i].event = event})

\* the sources whose dict holds a metric at the return
SourcesWithMetric ==
    {s \in DOMAIN report.metrics \ {"_meta"} : HasMetric(report.metrics[s])}

\* C24: at the return of analyze_market_data 'analysis-init' was charged
\* exactly once and 'market-analyzed' as many times as there are sources with
\* at least one metric; a source without a metric (empty text, or source_date
\* only) adds no charge.
C24_ChargesMatchSources ==
    apc = "returned" =>
        /\ Charged("analysis-init") = 1
        /\ Charged("market-analyzed") = Cardinality(SourcesWithMetric)
        /\ Len(charges) = 1 + Cardinality(SourcesWithMetric)

C24_Witness ==
    /\ apc = "returned"
    /\ Len(market_data) = 2
    /\ Cardinality(SourcesWithMetric) = 1
    /\ \E i \in 1..Len(market_data) :
         /\ market_data[i].text # <<>>
         /\ market_data[i].source \in DOMAIN InitialMetrics
         /\ ~HasMetric(report.metrics[market_data[i].source])
         /\ report.metrics[market_data[i].source].source_date # <<>>
    /\ Charged("market-analyzed") = 1

-----------------------------------------------------------------------------
(* main: the actor's entry point *)

\* main is modelled on its own control flow.  The clients, the agents'
\* constructors and the agents' stage methods are calls that either raise or
\* return, and a returned value is empty or not.  This covers every behaviour
\* the agents under src/ have there: AnalysisAgent.__init__ takes no client
\* argument, so with those agents line 80 raises and main returns at line 84.

\* a key of the input dict holds <<>> when absent (get gives None), <<v>> else
InputKeys == {"openaiApiKey", "apifyApiKey", "location"}
KeyValues == {<<>>, <<"">>, <<"key-a">>, <<"key-b">>}
LocationValues == {<<>>, <<"">>, <<"Miami, FL">>, <<"Austin, TX">>}

\* bool(actor_input.get(key))
InputTruthy(key) == actor_input.d[key] # <<>> /\ actor_input.d[key] # <<"">>

EmptyInput == [k \in InputKeys |-> <<>>]

\* one entry of the run's record: a stage and what it produced
Stage(name, result) == [name |-> name, result |-> result]

\* line 30: Actor.get_input() or {}
MGetInput ==
    /\ mpc = "start"
    /\ actor_input' = [null |-> FALSE,
                       d |-> IF actor_input.null THEN EmptyInput ELSE actor_input.d]
    /\ mpc' = "openaiApiKey"
    /\ UNCHANGED <<stages, environ, pushed, extractVars, analyzeVars, writerVars, filterVars>>

\* the check of one required input: return when it is missing
Validate(key, next) ==
    /\ stages' = Append(stages, Stage(key, IF InputTruthy(key) THEN "value" ELSE "empty"))
    /\ mpc' = IF InputTruthy(key) THEN next ELSE "returned"
    /\ UNCHANGED <<actor_input, environ, pushed, extractVars, analyzeVars, writerVars, filterVars>>

\* lines 34, 37-40
MCheckOpenAIKey ==
    /\ mpc = "openaiApiKey"
    /\ Validate("openaiApiKey", "apifyApiKey")

\* lines 35, 42-45
MCheckApifyKey ==
    /\ mpc = "apifyApiKey"
    /\ Validate("apifyApiKey", "location")

\* the location check without its return
MCheckLocation_noreturn ==
    /\ mpc = "location"
    /\ stages' = Append(stages, Stage("location",
                                      IF InputTruthy("location") THEN "value" ELSE "empty"))
    /\ mpc' = "environ"
    /\ UNCHANGED <<actor_input, environ, pushed, extractVars, analyzeVars, writerVars, filterVars>>

\* lines 48-52
MCheckLocation ==
    /\ mpc = "location"
    /\ Validate("location", "environ")

\* lines 55-56
MSetEnviron ==
    /\ mpc = "environ"
    /\ environ' = {<<"OPENAI_API_KEY", actor_input.d["openaiApiKey"]>>,
                   <<"APIFY_TOKEN", actor_input.d["apifyApiKey"]>>}
    /\ mpc' = "openai_client"
    /\ UNCHANGED <<actor_input, stages, pushed, extractVars, analyzeVars, writerVars, filterVars>>

\* lines 60-65: AsyncOpenAI(api_key=...) or the return of the except clause
MOpenAIClient ==
    /\ mpc = "openai_client"
    /\ \E ok \in BOOLEAN : mpc' = IF ok THEN "apify_client" ELSE "returned"
    /\ UNCHANGED <<actor_input, stages, environ, pushed,
                   extractVars, analyzeVars, writerVars, filterVars>>

\* lines 68-73: ApifyClient(token=...) or the return of the except clause
MApifyClient ==
    /\ mpc = "apify_client"
    /\ \E ok \in BOOLEAN : mpc' = IF ok THEN "agents" ELSE "returned"
    /\ UNCHANGED <<actor_input, stages, environ, pushed,
                   extractVars, analyzeVars, writerVars, filterVars>>

\* lines 76-84: the four constructors, or the return of the except clause
MInitAgents ==
    /\ mpc = "agents"
    /\ \E ok \in BOOLEAN :
         /\ stages' = Append(stages, Stage("agents", IF ok THEN "value" ELSE "raised"))
         /\ mpc' = IF ok THEN "find_sources" ELSE "returned"
    /\ UNCHANGED <<actor_input, environ, pushed, extractVars, analyzeVars, writerVars, filterVars>>

\* a stage of the workflow inside the try of line 86: the call raises (the
\* except clause of lines 127-130 raises again), or returns something empty
\* (main returns), or returns a result
Workflow(name, next) ==
    /\ \E out \in {"value", "empty", "raised"} :
         /\ stages' = Append(stages, Stage(name, out))
         /\ mpc' = CASE out = "value" -> next
                     [] out = "empty" -> "returned"
                     [] out = "raised" -> "raised"
    /\ UNCHANGED <<actor_input, environ, pushed, extractVars, analyzeVars, writerVars, filterVars>>

\* lines 89-93
MFindSources ==
    /\ mpc = "find_sources"
    /\ Workflow("find_sources", "extract_data")

\* lines 96-100
MExtractData ==
    /\ mpc = "extract_data"
    /\ Workflow("extract_data", "analysis")

\* lines 103-107
MAnalyzeMarket ==
    /\ mpc = "analysis"
    /\ Workflow("analysis", "newsletter")

\* lines 110-114
MGenerateNewsletter ==
    /\ mpc = "newsletter"
    /\ Workflow("newsletter", "push_data")

\* lines 118-125: Actor.push_data
MPushData ==
    /\ mpc = "push_data"
    /\ pushed' = pushed + 1
    /\ \E ok \in BOOLEAN :
         /\ stages' = Append(stages, Stage("push_data", IF ok THEN "value" ELSE "raised"))
         /\ mpc' = IF ok THEN "returned" ELSE "raised"
    /\ UNCHANGED <<actor_input, environ, extractVars, analyzeVars, writerVars, filterVars>>

InitMain ==
    /\ ExtractIdle
    /\ AnalyzeIdle
    /\ WriterIdle
    /\ FilterIdle
    /\ actor_input \in
         {[null |-> TRUE, d |-> EmptyInput]} \cup
         {[null |-> FALSE,
           d |-> [openaiApiKey |-> o, apifyApiKey |-> a, location |-> l]] :
              o \in KeyValues, a \in KeyValues, l \in LocationValues}
    /\ mpc = "start"
    /\ stages = <<>>
    /\ environ = {}
    /\ pushed = 0

NextMain ==
    \/ MGetInput
    \/ MCheckOpenAIKey
    \/ MCheckApifyKey
    \/ MCheckLocation
    \/ MSetEnviron
    \/ MOpenAIClient
    \/ MApifyClient
    \/ MInitAgents
    \/ MFindSources
    \/ MExtractData
    \/ MAnalyzeMarket
    \/ MGenerateNewsletter
    \/ MPushData

SpecMain == InitMain /\ [][NextMain]_vars

\* the order of the stages
StageOrder ==
    <<"openaiApiKey", "apifyApiKey", "location", "agents", "find_sources",
      "extract_data", "analysis", "newsletter", "push_data">>

\* C25: the stages of main that have run are an initial part of the order
\* input validation, agent initialisation, find_sources, extract_data,
\* analysis, newsletter, push_data; push_data is called at most once and only
\* when every earlier stage produced a non-empty result; a stage that found
\* its input missing, returned something empty or raised is the last one to
\* run, and nothing is pushed then.
C25_StagesInOrder ==
    /\ Len(stages) <= Len(StageOrder)
    /\ \A i \in 1..Len(stages) : stages[i].name = StageOrder[i]
    /\ pushed <= 1
    /\ pushed = Cardinality({i \in 1..Len(stages) : stages[i].name = "push_data"})
    /\ \A i \in 1..Len(stages) :
         stages[i].name = "push_data" => \A j \in 1..(i - 1) : stages[j].result = "value"
    /\ \A i \in 1..Len(stages) :
         stages[i].result # "value" => i = Len(stages)
    /\ \A i \in 1..Len(stages) :
         stages[i].result # "value" /\ stages[i].name # "push_data" => pushed = 0
    /\ mpc \notin {"idle", "start"} =>
         \A k \in 1..3 :
            ~InputTruthy(StageOrder[k]) => Len(stages) <= k /\ pushed = 0 /\ environ = {}

C25_Witness ==
    /\ mpc = "returned"
    /\ InputTruthy("openaiApiKey") /\ InputTruthy("apifyApiKey")
    /\ ~InputTruthy("location")
    /\ stages = <<Stage("openaiApiKey", "value"), Stage("apifyApiKey", "value"),
                  Stage("location", "empty")>>
    /\ pushed = 0

====
